---- MODULE Spec2Model ----
(***************************************************************************)
(* A model of doxhooks.dependency_databases.DependencyDatabase and of the  *)
(* code that calls it, and of doxhooks.preprocessors.Preprocessor with its *)
(* context.                                                                *)
(*                                                                         *)
(* Python sets are objects: two names can refer to one set, and a change   *)
(* made through one name is seen through the other.  The model keeps every *)
(* set object in `heap` and the dictionaries map their keys to references  *)
(* into it, so that `set(features)` and `products.copy()` are allocations  *)
(* of new objects and not the identity.                                    *)
(*                                                                         *)
(* Features are input-file paths (str) and products are resource ids, as   *)
(* in ResourceEnvironment.update.                                          *)
(***************************************************************************)
EXTENDS Integers, Sequences, FiniteSets, TLC

VARIABLES
    heap,               \* the set objects: reference -> elements
    features_products,  \* DependencyDatabase._features_products: feature -> reference
    products_features,  \* DependencyDatabase._products_features: product -> reference
    held,               \* the set object that the caller still refers to
    raised,             \* the exception that the last call raised, or "none"
    call,               \* the operation that the last step was
    last,               \* history: the features last passed for each product
                        \* since the database was made or loaded
    age,                \* 0 until the database is loaded, then 1 + the number
                        \* of calls since
    preprocessor,       \* the Preprocessor, its context and what it has done
    urls,               \* URLMapping._urls: resource identity -> URL
    output_roots,       \* fileio._output_roots: the absolute paths of the roots
    filesystem          \* the platform, and the directories and files there are

vars ==
    <<heap, features_products, products_features, held, raised, call, last, age,
      preprocessor, urls, output_roots, filesystem>>

----------------------------------------------------------------------------
(* Bounds *)

NumProducts == 2
NumFeatures == 2
MaxCallsAfterLoad == 1

ProductNames == <<"product1", "product2", "product3", "product4">>
FeatureNames == <<"feature1", "feature2", "feature3", "feature4">>

Products == {ProductNames[i] : i \in 1..NumProducts}
Features == {FeatureNames[i] : i \in 1..NumFeatures}

NoKey == "-"

\* No Preprocessor has been made.
NoPreprocessor == [context |-> "none"]

\* No file system is modelled.
NoFileSystem == [os |-> "none"]

\* What a caller of the database has of the other modules: no URLMapping
\* with a URL, no output root and no file system.
NothingElse(mapping, roots, fs) ==
    mapping = <<>> /\ roots = {} /\ fs = NoFileSystem
NeverUpdated == {NoKey}

----------------------------------------------------------------------------
(* Dictionaries and set objects *)

EmptyDict == <<>>

DictSet(d, k, v) == [x \in DOMAIN d \cup {k} |-> IF x = k THEN v ELSE d[x]]

DictDel(d, k) == [x \in DOMAIN d \ {k} |-> d[x]]

\* The state of a database and of the objects around it.
State(h, fp, pf) == [heap |-> h, fp |-> fp, pf |-> pf]

\* A reference that no object has.
FreshRef(h) == CHOOSE r \in 1..(2 * (NumProducts + NumFeatures) + 4) : r \notin DOMAIN h

\* A new set object with the given elements: {...}, set(...), s.copy().
NewSet(h, elems) == [heap |-> DictSet(h, FreshRef(h), elems), ref |-> FreshRef(h)]

\* s.add(x) and s.remove(x) change the object that s refers to.
SetAdd(h, ref, x) == [r \in DOMAIN h |-> IF r = ref THEN h[r] \cup {x} ELSE h[r]]

SetRemove(h, ref, x) == [r \in DOMAIN h |-> IF r = ref THEN h[r] \ {x} ELSE h[r]]

\* All the orders in which the elements of a set can be iterated.
Orders(S) ==
    {q \in [1..Cardinality(S) -> S] : \A i, j \in 1..Cardinality(S) : q[i] = q[j] => i = j}

----------------------------------------------------------------------------
(* Python-literal data and the files of it *)

\* A value that ast.literal_eval returns: its type, the items of a dict and
\* the elements of a set, a list or a tuple.
Literal(type, items, elems) == [type |-> type, items |-> items, elems |-> elems]

NoneLiteral == Literal("NoneType", EmptyDict, {})

DictLiteral(items) == Literal("dict", items, {})

SetLiteral(elems) == Literal("set", EmptyDict, elems)

\* The file at a path: missing, text that is no Python literal, or the text
\* of a literal.
NoFile == [kind |-> "none", data |-> NoneLiteral]

MissingFile == [kind |-> "missing", data |-> NoneLiteral]

NotLiteralFile == [kind |-> "text", data |-> NoneLiteral]

LiteralFile(data) == [kind |-> "literal", data |-> data]

\* dataio.load_literals: the value in the file, or the exception raised.
load_literals(file) ==
    IF file.kind = "missing"
    THEN [raised |-> "DoxhooksFileSystemError", data |-> NoneLiteral]
    ELSE IF file.kind = "text"
    THEN [raised |-> "DoxhooksDataFileError", data |-> NoneLiteral]
    ELSE [raised |-> "none", data |-> file.data]

\* data[key]: the value, or the exception raised.  Only a dict has str keys.
Subscript(data, key) ==
    IF data.type # "dict"
    THEN [raised |-> "TypeError", value |-> NoneLiteral]
    ELSE IF key \notin DOMAIN data.items
    THEN [raised |-> "KeyError", value |-> NoneLiteral]
    ELSE [raised |-> "none", value |-> data.items[key]]

\* The keys of the dict that the data of a file has for a key.
FileKeys(file, key) == DOMAIN Subscript(file.data, key).value.items

\* [isinstance(value, set) for value in dict_.values()]: whether all are
\* sets, or the exception raised.  Only a dict has the method values.
are_sets_Unchecked(dict_) == [raised |-> "none", all |-> TRUE]

are_sets(dict_) ==
    IF dict_.type # "dict"
    THEN [raised |-> "AttributeError", all |-> FALSE]
    ELSE [raised |-> "none",
          all |-> \A k \in DOMAIN dict_.items : dict_.items[k].type = "set"]

----------------------------------------------------------------------------
(* The features argument of update_dependencies *)

\* The caller's argument: a set object of the heap, or a list or a one-shot
\* iterator over the given elements.
SetArg(ref) == [kind |-> "set", ref |-> ref]

IterableArg(kind, elems) == [kind |-> kind, elems |-> elems]

\* The elements that iterating the argument for the first time yields.
Items(h, features) == IF features.kind = "set" THEN h[features.ref] ELSE features.elems

\* The elements that iterating the argument again yields: a one-shot
\* iterator is exhausted by its first iteration.
ItemsAgain(h, features) == IF features.kind = "iterator" THEN {} ELSE Items(h, features)

\* bool(features): a set or a list is true when it has an element, an
\* iterator object is always true.
Truthy(h, features) == IF features.kind = "iterator" THEN TRUE ELSE Items(h, features) # {}

\* set(features): a new set object with the elements of the argument.
set_features_NoCopy(h, features) == [heap |-> h, ref |-> features.ref]

set_features(h, features) == NewSet(h, Items(h, features))

\* features.difference(previous_features)
added_features_None(features, previous_features) == {}

added_features(features, previous_features) == features \ previous_features

\* previous_features.difference(features)
removed_features(previous_features, features) == previous_features \ features

----------------------------------------------------------------------------
(* DependencyDatabase *)

\* DependencyDatabase.__init__
EmptyDatabase == State(<<>>, EmptyDict, EmptyDict)

\* DependencyDatabase.retrieve_products: the returned reference and the heap
\* after the call.
retrieve_products_NoCopy(st, feature) ==
    IF feature \notin DOMAIN st.fp
    THEN NewSet(st.heap, {})
    ELSE [heap |-> st.heap, ref |-> st.fp[feature]]

retrieve_products(st, feature) ==
    IF feature \notin DOMAIN st.fp
    THEN NewSet(st.heap, {})
    ELSE NewSet(st.heap, st.heap[st.fp[feature]])

\* DependencyDatabase._add_product: add a product to each feature's set of
\* products.
RECURSIVE add_product(_, _, _)
add_product(st, product, features) ==
    IF features = {}
    THEN st
    ELSE LET feature == CHOOSE f \in features : TRUE
             st1 == IF feature \in DOMAIN st.fp
                    THEN [st EXCEPT !.heap = SetAdd(st.heap, st.fp[feature], product)]
                    ELSE LET new == NewSet(st.heap, {product})
                         IN  [st EXCEPT !.heap = new.heap,
                                        !.fp = DictSet(st.fp, feature, new.ref)]
         IN  add_product(st1, product, features \ {feature})

\* DependencyDatabase._remove_product: remove a product from each feature's
\* set of products, from the i-th feature of the iteration order on.
RECURSIVE remove_product_Discard(_, _, _, _)
remove_product_Discard(st, product, order, i) ==
    IF i > Len(order)
    THEN [st |-> st, raised |-> "none"]
    ELSE LET feature == order[i]
         IN  IF feature \notin DOMAIN st.fp
             THEN remove_product_Discard(st, product, order, i + 1)
             ELSE LET products == st.fp[feature]
                      h1 == SetRemove(st.heap, products, product)
                      st1 == [st EXCEPT !.heap = h1,
                                        !.fp = IF h1[products] = {}
                                               THEN DictDel(st.fp, feature) ELSE st.fp]
                  IN  remove_product_Discard(st1, product, order, i + 1)

RECURSIVE remove_product(_, _, _, _)
remove_product(st, product, order, i) ==
    IF i > Len(order)
    THEN [st |-> st, raised |-> "none"]
    ELSE LET feature == order[i]
         IN  IF feature \notin DOMAIN st.fp
             THEN [st |-> st, raised |-> "RuntimeError"]
             ELSE LET products == st.fp[feature]
                  IN  IF product \notin st.heap[products]
                      THEN [st |-> st, raised |-> "RuntimeError"]
                      ELSE LET h1 == SetRemove(st.heap, products, product)
                               st1 == [st EXCEPT !.heap = h1,
                                                 !.fp = IF h1[products] = {}
                                                        THEN DictDel(st.fp, feature) ELSE st.fp]
                           IN  remove_product(st1, product, order, i + 1)

\* A dict of the evaluated file becomes a dict of the database: its sets are
\* new objects.
RECURSIVE Adopted(_, _, _)
Adopted(h, dict_, keys) ==
    IF keys = {}
    THEN [heap |-> h, dict |-> EmptyDict]
    ELSE LET k == CHOOSE x \in keys : TRUE
             rest == Adopted(h, dict_, keys \ {k})
             new == NewSet(rest.heap, dict_.items[k].elems)
         IN  [heap |-> new.heap, dict |-> DictSet(rest.dict, k, new.ref)]

\* The assignments that end load.
replace_database_Merge(st, features_products_, products_features_) ==
    LET fp == Adopted(st.heap, features_products_, DOMAIN features_products_.items)
        pf == Adopted(fp.heap, products_features_, DOMAIN products_features_.items)
    IN  State(pf.heap,
              [f \in DOMAIN st.fp \cup DOMAIN fp.dict |->
                  IF f \in DOMAIN fp.dict THEN fp.dict[f] ELSE st.fp[f]],
              [p \in DOMAIN st.pf \cup DOMAIN pf.dict |->
                  IF p \in DOMAIN pf.dict THEN pf.dict[p] ELSE st.pf[p]])

replace_database(st, features_products_, products_features_) ==
    LET fp == Adopted(st.heap, features_products_, DOMAIN features_products_.items)
        pf == Adopted(fp.heap, products_features_, DOMAIN products_features_.items)
    IN  State(pf.heap, fp.dict, pf.dict)

\* DependencyDatabase.load with features_products assigned as soon as it has
\* been checked, before products_features is checked.
load_AssignsFirst(st, file) ==
    LET read == load_literals(file)
        features_products_ == Subscript(read.data, "features_products")
        products_features_ == Subscript(read.data, "products_features")
        checked1 == are_sets(features_products_.value)
        checked2 == are_sets(products_features_.value)
        fp == Adopted(st.heap, features_products_.value,
                      DOMAIN features_products_.value.items)
    IN  IF read.raised # "none"
        THEN [st |-> st, raised |-> read.raised]
        ELSE IF features_products_.raised # "none" \/ products_features_.raised # "none"
        THEN [st |-> st, raised |-> "DoxhooksDataFileError"]
        ELSE IF checked1.raised # "none" \/ ~checked1.all
        THEN [st |-> st, raised |-> "DoxhooksDataFileError"]
        ELSE IF checked2.raised # "none" \/ ~checked2.all
        THEN [st |-> State(fp.heap, fp.dict, st.pf), raised |-> "DoxhooksDataFileError"]
        ELSE [st |-> replace_database(st, features_products_.value,
                                      products_features_.value),
              raised |-> "none"]

\* DependencyDatabase.load: the state after the call and the exception that
\* the call raised.
load(st, file) ==
    LET read == load_literals(file)
        features_products_ == Subscript(read.data, "features_products")
        products_features_ == Subscript(read.data, "products_features")
        checked1 == are_sets(features_products_.value)
        checked2 == are_sets(products_features_.value)
    IN  IF read.raised # "none"
        THEN [st |-> st, raised |-> read.raised]
        ELSE IF features_products_.raised # "none" \/ products_features_.raised # "none"
        THEN [st |-> st, raised |-> "DoxhooksDataFileError"]
        ELSE IF checked1.raised # "none" \/ ~checked1.all
        THEN [st |-> st, raised |-> "DoxhooksDataFileError"]
        ELSE IF checked2.raised # "none" \/ ~checked2.all
        THEN [st |-> st, raised |-> "DoxhooksDataFileError"]
        ELSE [st |-> replace_database(st, features_products_.value,
                                      products_features_.value),
              raised |-> "none"]

\* update_dependencies with the database restored when the call raises the
\* RuntimeError of an inconsistent database.
update_dependencies_Atomic(st, product, features) ==
    LET outcomes ==
        IF product \notin DOMAIN st.pf
        THEN IF Truthy(st.heap, features)
             THEN LET new == set_features(st.heap, features)
                      st1 == [st EXCEPT !.heap = new.heap,
                                        !.pf = DictSet(st.pf, product, new.ref)]
                  IN  {[st |-> add_product(st1, product, ItemsAgain(st1.heap, features)),
                        raised |-> "none"]}
             ELSE {[st |-> st, raised |-> "none"]}
        ELSE LET previous_features == st.pf[product]
                 st1 == IF Truthy(st.heap, features)
                        THEN LET new == set_features(st.heap, features)
                             IN  [st EXCEPT !.heap = new.heap,
                                            !.pf = DictSet(st.pf, product, new.ref)]
                        ELSE [st EXCEPT !.pf = DictDel(st.pf, product)]
             IN  IF features.kind # "set"
                 THEN {[st |-> st1, raised |-> "AttributeError"]}
                 ELSE LET added == added_features(st1.heap[features.ref],
                                                  st1.heap[previous_features])
                          removed == removed_features(st1.heap[previous_features],
                                                      st1.heap[features.ref])
                          st2 == add_product(st1, product, added)
                      IN  {remove_product(st2, product, order, 1) : order \in Orders(removed)}
    IN  {IF out.raised = "RuntimeError" THEN [st |-> st, raised |-> out.raised] ELSE out :
             out \in outcomes}

\* DependencyDatabase.update_dependencies: the states that the call can end
\* in, one for each order in which the removed features can be iterated, each
\* with the exception that the call raised.
update_dependencies(st, product, features) ==
    IF product \notin DOMAIN st.pf
    THEN IF Truthy(st.heap, features)
         THEN LET new == set_features(st.heap, features)
                  st1 == [st EXCEPT !.heap = new.heap,
                                    !.pf = DictSet(st.pf, product, new.ref)]
              IN  {[st |-> add_product(st1, product, ItemsAgain(st1.heap, features)),
                    raised |-> "none"]}
         ELSE {[st |-> st, raised |-> "none"]}
    ELSE LET previous_features == st.pf[product]
             st1 == IF Truthy(st.heap, features)
                    THEN LET new == set_features(st.heap, features)
                         IN  [st EXCEPT !.heap = new.heap,
                                        !.pf = DictSet(st.pf, product, new.ref)]
                    ELSE [st EXCEPT !.pf = DictDel(st.pf, product)]
         IN  IF features.kind # "set"
             THEN {[st |-> st1, raised |-> "AttributeError"]}
             ELSE LET added == added_features(st1.heap[features.ref],
                                              st1.heap[previous_features])
                      removed == removed_features(st1.heap[previous_features],
                                                  st1.heap[features.ref])
                      st2 == add_product(st1, product, added)
                  IN  {remove_product(st2, product, order, 1) : order \in Orders(removed)}

----------------------------------------------------------------------------
(* The objects that are alive *)

\* What the caller holds: nothing, the set that it passed to
\* update_dependencies ("arg"), the set that retrieve_products returned
\* ("ret"), or a list or an iterator, which is no set object.
NotHeld == [kind |-> "none"]

Holds(hd) == hd.kind \in {"arg", "ret"}

\* The places that can refer to a set object, in a fixed order: the values of
\* products_features, the values of features_products, the caller.
Slots == 1..(NumProducts + NumFeatures + 1)

Occupied(st, hd) ==
    {i \in Slots :
        IF i <= NumProducts THEN ProductNames[i] \in DOMAIN st.pf
        ELSE IF i <= NumProducts + NumFeatures
        THEN FeatureNames[i - NumProducts] \in DOMAIN st.fp
        ELSE Holds(hd)}

SlotRef(st, hd, i) ==
    IF i <= NumProducts THEN st.pf[ProductNames[i]]
    ELSE IF i <= NumProducts + NumFeatures THEN st.fp[FeatureNames[i - NumProducts]]
    ELSE hd.ref

\* The same objects, each under the number of the first slot that refers to
\* it, and without the objects that nothing refers to any more (garbage).  A
\* reference has no meaning but identity, so this changes nothing that the
\* program can observe.
Renumbered(st, hd) ==
    LET occupied == Occupied(st, hd)
        firsts == {i \in occupied :
                      \A j \in occupied : j < i => SlotRef(st, hd, j) # SlotRef(st, hd, i)}
        new(r) == CHOOSE i \in firsts : SlotRef(st, hd, i) = r
    IN  [heap |-> [i \in firsts |-> st.heap[SlotRef(st, hd, i)]],
         fp |-> [f \in DOMAIN st.fp |-> new(st.fp[f])],
         pf |-> [p \in DOMAIN st.pf |-> new(st.pf[p])],
         held |-> IF Holds(hd) THEN [kind |-> hd.kind, ref |-> new(hd.ref)] ELSE hd]

\* The state of the variables after a step.
Becomes(st, hd, exception, operation) ==
    LET new == Renumbered(st, hd)
    IN  /\ heap' = new.heap
        /\ features_products' = new.fp
        /\ products_features' = new.pf
        /\ held' = new.held
        /\ raised' = exception
        /\ call' = operation
        /\ preprocessor' = preprocessor
        /\ UNCHANGED <<urls, output_roots, filesystem>>

Current == State(heap, features_products, products_features)

\* What the dictionary d records for the key k: the elements of d[k], and
\* nothing for a key that d does not have.
Recorded(h, d, k) == IF k \in DOMAIN d THEN h[d[k]] ELSE {}

\* The last step: the operation and its key (a product or a feature), and for
\* update_dependencies whether it passed the features that the call before it
\* passed for this product (repeat) and whether the product lost a feature.
Called(operation, key, repeat, lost) ==
    [op |-> operation, key |-> key, repeat |-> repeat, lost |-> lost, file |-> NoFile]

\* The last step was database.load(path), the file at the path was this, and
\* the database had a key before the call that the dicts of the file do not have
\* (lost).
Loaded(file) ==
    [op |-> "load", key |-> NoKey, repeat |-> FALSE,
     lost |-> \/ DOMAIN features_products \ FileKeys(file, "features_products") # {}
              \/ DOMAIN products_features \ FileKeys(file, "products_features") # {},
     file |-> file]

Updated(product, elems) ==
    Called("update_dependencies", product, last[product] = elems,
           Recorded(heap, products_features, product) \ elems # {})

----------------------------------------------------------------------------
(* The steps of a caller of the database *)

Init ==
    /\ heap = EmptyDatabase.heap
    /\ features_products = EmptyDatabase.fp
    /\ products_features = EmptyDatabase.pf
    /\ held = NotHeld
    /\ raised = "none"
    /\ call = Called("init", NoKey, FALSE, FALSE)
    /\ last = [p \in Products |-> NeverUpdated]
    /\ age = 0
    /\ preprocessor = NoPreprocessor
    /\ NothingElse(urls, output_roots, filesystem)

\* A call of the caller, which makes at most MaxCallsAfterLoad calls after it
\* has loaded the database.
Calls ==
    /\ age <= MaxCallsAfterLoad
    /\ age' = IF age = 0 THEN 0 ELSE age + 1

\* database.update_dependencies(product, features) with a new set object
\* `features`, to which the caller keeps its reference.
UpdateDependencies(product, elems) ==
    LET arg == NewSet(heap, elems)
        st == State(arg.heap, features_products, products_features)
    IN  /\ Calls
        /\ \E out \in update_dependencies(st, product, SetArg(arg.ref)) :
               Becomes(out.st, [kind |-> "arg", ref |-> arg.ref],
                       out.raised, Updated(product, elems))
        /\ last' = [last EXCEPT ![product] = elems]

\* database.update_dependencies(product, features) with the set object that
\* the caller passed to the call before.
UpdateDependenciesAgain(product) ==
    /\ Calls
    /\ held.kind = "arg"
    /\ \E out \in update_dependencies(Current, product, SetArg(held.ref)) :
           Becomes(out.st, held, out.raised, Updated(product, heap[held.ref]))
    /\ last' = [last EXCEPT ![product] = heap[held.ref]]

\* products = database.retrieve_products(feature)
RetrieveProducts(feature) ==
    LET got == retrieve_products(Current, feature)
    IN  /\ Calls
        /\ Becomes(State(got.heap, features_products, products_features),
                   [kind |-> "ret", ref |-> got.ref],
                   "none", Called("retrieve_products", feature, FALSE, FALSE))
        /\ last' = last

\* The caller adds an element to the set that it holds, or removes it.
CallerMutates(x) ==
    /\ age' = age
    /\ \/ held.kind = "arg" /\ x \in Features
       \/ held.kind = "ret" /\ x \in Products
    /\ LET h1 == IF x \in heap[held.ref]
                 THEN SetRemove(heap, held.ref, x)
                 ELSE SetAdd(heap, held.ref, x)
       IN  Becomes(State(h1, features_products, products_features), held, raised,
                   Called("mutate", x, FALSE, FALSE))
    /\ last' = last

Next ==
    \/ \E product \in Products, elems \in SUBSET Features :
           UpdateDependencies(product, elems)
    \/ \E product \in Products : UpdateDependenciesAgain(product)
    \/ \E feature \in Features : RetrieveProducts(feature)
    \/ \E x \in Products \cup Features : CallerMutates(x)

Spec == Init /\ [][Next]_vars

\* database.update_dependencies(product, features) with a list of features or
\* with a one-shot iterator over them, as the signature Iterable[Hashable]
\* admits.  The caller is left with an object of that kind, which is no set.
UpdateDependenciesIterable(product, kind, elems) ==
    /\ Calls
    /\ \E out \in update_dependencies(Current, product, IterableArg(kind, elems)) :
           Becomes(out.st, [kind |-> kind], out.raised,
                   Updated(product, elems))
    /\ last' = [last EXCEPT ![product] = elems]

NextIterable ==
    \/ Next
    \/ \E product \in Products, elems \in SUBSET Features :
           UpdateDependenciesIterable(product, "list", elems)
    \/ \E product \in Products, elems \in SUBSET Features :
           UpdateDependenciesIterable(product, "iterator", elems)

SpecIterable == Init /\ [][NextIterable]_vars

\* The dict that a file has for a relation between products and features:
\* side 1 is the product, side 2 the feature.  A key that is related to nothing
\* has the empty set or, without emptyEntries, no item.
DictOfRelation(R, keys, side, emptyEntries) ==
    DictLiteral(
        [k \in {x \in keys : emptyEntries \/ \E r \in R : r[side] = x} |->
            SetLiteral({r[3 - side] : r \in {q \in R : q[side] = k}})])

\* The relation R, and R with one pair missing or one pair more.
OffByOne(R) ==
    {R} \cup {R \ {r} : r \in R} \cup {R \cup {r} : r \in (Products \X Features) \ R}

DatabaseLiteral(features_products_, products_features_) ==
    DictLiteral([k \in {"features_products", "products_features"} |->
                    IF k = "features_products"
                    THEN features_products_ ELSE products_features_])

\* Files of a database: the features of the products are any relation, and
\* the products of the features are its inverse or are off by one pair.
DatabaseFiles ==
    UNION {{LiteralFile(DatabaseLiteral(DictOfRelation(Q, Features, 2, e),
                                        DictOfRelation(R, Products, 1, e))) :
               Q \in OffByOne(R), e \in BOOLEAN} :
           R \in SUBSET (Products \X Features)}

\* A dict whose only key has a value of the given type, which is no set.
DictWithA(type, key, elem) ==
    DictLiteral([k \in {key} |-> Literal(type, EmptyDict, {elem})])

\* The two dicts of a database in which the first product has the first
\* feature.
GoodFeaturesProducts ==
    DictOfRelation({<<ProductNames[1], FeatureNames[1]>>}, Features, 2, FALSE)

GoodProductsFeatures ==
    DictOfRelation({<<ProductNames[1], FeatureNames[1]>>}, Products, 1, FALSE)

\* Values that are no dict of sets.
BadFeaturesProducts ==
    {NoneLiteral, Literal("list", EmptyDict, {})}
        \cup {DictWithA(type, FeatureNames[1], ProductNames[1]) :
                 type \in {"int", "list", "tuple"}}

BadProductsFeatures ==
    {NoneLiteral, Literal("list", EmptyDict, {})}
        \cup {DictWithA(type, ProductNames[1], FeatureNames[1]) :
                 type \in {"int", "list", "tuple"}}

\* Files that are no database: no file, no literal, no dict, a dict without
\* one of the two keys, and a dict with a value for a key that is no dict or
\* is a dict with a value that is no set.
BadFiles ==
    {MissingFile, NotLiteralFile}
        \cup {LiteralFile(Literal(type, EmptyDict, {})) :
                 type \in {"NoneType", "int", "str", "tuple", "list", "set", "dict"}}
        \cup {LiteralFile(DictLiteral([k \in {"features_products"} |->
                                          GoodFeaturesProducts])),
              LiteralFile(DictLiteral([k \in {"products_features"} |->
                                          GoodProductsFeatures])),
              LiteralFile(DictLiteral([k \in {"0"} |-> Literal("int", EmptyDict, {})]))}
        \cup {LiteralFile(DatabaseLiteral(bad, GoodProductsFeatures)) :
                 bad \in BadFeaturesProducts}
        \cup {LiteralFile(DatabaseLiteral(GoodFeaturesProducts, bad)) :
                 bad \in BadProductsFeatures}

Files == DatabaseFiles \cup BadFiles

\* database.load(path) with the given file at the path.  The caller loads the
\* database once, before or after it has updated it.
Load(file) ==
    LET out == load(Current, file)
    IN  /\ age = 0
        /\ age' = 1
        /\ Becomes(out.st, held, out.raised, Loaded(file))
        /\ last' = IF out.raised = "none" THEN [p \in Products |-> NeverUpdated] ELSE last

NextLoad ==
    \/ Next
    \/ \E file \in Files : Load(file)

SpecLoad == Init /\ [][NextLoad]_vars

----------------------------------------------------------------------------
(* Saving Python-literal data *)

\* The text that ascii() returns for a value, as the expression that it is
\* read as: a display of a dict, a set, a list or a tuple, a constant, a call
\* such as set() or frozenset({...}), or the <... object at ...> of an object
\* without a literal representation.
Text(form, items, elems) == [form |-> form, items |-> items, elems |-> elems]

\* The types of objects that are not Python literals: an object with the
\* default repr, the tests' object whose repr is "0", and frozenset.
NonLiteralTypes == {"object", "ExampleNonRestorableRepr", "frozenset"}

\* ascii(data).  The empty set has no display: its repr is the call set().
RECURSIVE ascii(_)
ascii(data) ==
    CASE data.type = "dict" ->
             Text("dict", [k \in DOMAIN data.items |-> ascii(data.items[k])], {})
      [] data.type = "set" ->
             IF data.elems = {} THEN Text("call", EmptyDict, {})
                                ELSE Text("set", EmptyDict, data.elems)
      [] data.type \in {"list", "tuple"} -> Text(data.type, EmptyDict, data.elems)
      [] data.type = "frozenset" -> Text("call", EmptyDict, data.elems)
      [] data.type = "object" -> Text("angle", EmptyDict, {})
      [] data.type \in {"int", "ExampleNonRestorableRepr"} -> Text("number", EmptyDict, {})
      [] data.type = "str" -> Text("string", EmptyDict, {})
      [] OTHER -> Text("None", EmptyDict, {})

\* ast.literal_eval(string) of Python 3.3 and 3.4: the value, or the exception
\* raised.  A call is no literal (ValueError) and <...> is no expression
\* (SyntaxError).
RECURSIVE literal_eval(_)
literal_eval(string) ==
    CASE string.form = "angle" -> [raised |-> "SyntaxError", value |-> NoneLiteral]
      [] string.form = "call" -> [raised |-> "ValueError", value |-> NoneLiteral]
      [] string.form = "dict" ->
             LET values == [k \in DOMAIN string.items |-> literal_eval(string.items[k])]
             IN  IF \E k \in DOMAIN values : values[k].raised # "none"
                 THEN [raised |-> "ValueError", value |-> NoneLiteral]
                 ELSE [raised |-> "none",
                       value |-> DictLiteral([k \in DOMAIN values |-> values[k].value])]
      [] string.form \in {"set", "list", "tuple"} ->
             [raised |-> "none", value |-> Literal(string.form, EmptyDict, string.elems)]
      [] string.form = "number" ->
             [raised |-> "none", value |-> Literal("int", EmptyDict, {})]
      [] string.form = "string" ->
             [raised |-> "none", value |-> Literal("str", EmptyDict, {})]
      [] OTHER -> [raised |-> "none", value |-> NoneLiteral]

\* The file that has the given text: fileio.save(path, string, "ascii").
FileOfText(string) ==
    IF literal_eval(string).raised = "none"
    THEN LiteralFile(literal_eval(string).value)
    ELSE NotLiteralFile

\* dataio.save_literals: the file written (NoFile when none is) and the
\* exception raised.
save_literals_Unchecked(data) == [raised |-> "none", file |-> FileOfText(ascii(data))]

save_literals(data) ==
    LET string == ascii(data)
        evaluated_data == literal_eval(string)
    IN  IF evaluated_data.raised # "none"
        THEN [raised |-> "DoxhooksDataError", file |-> NoFile]
        ELSE IF evaluated_data.value # data
        THEN [raised |-> "DoxhooksDataError", file |-> NoFile]
        ELSE [raised |-> "none", file |-> FileOfText(string)]

\* The data that DependencyDatabase.save writes: the two dicts by value.
DatabaseData(st) ==
    DatabaseLiteral(
        DictLiteral([f \in DOMAIN st.fp |-> SetLiteral(st.heap[st.fp[f]])]),
        DictLiteral([p \in DOMAIN st.pf |-> SetLiteral(st.heap[st.pf[p]])]))

\* DependencyDatabase.save
save(st) == save_literals(DatabaseData(st))

\* The last step was save_literals(path, data), and this file was written.
Saved(data, file) ==
    [op |-> "save_literals", key |-> NoKey, repeat |-> FALSE, lost |-> FALSE,
     file |-> file, data |-> data]

\* The values that are saved: the constants, the objects that are no
\* literals, the containers of features, and the dicts of these.
FlatValues ==
    {Literal(type, EmptyDict, {}) : type \in {"NoneType", "int", "str", "object",
                                              "ExampleNonRestorableRepr"}}
        \cup {Literal(type, EmptyDict, elems) :
                 type \in {"set", "list", "tuple", "frozenset"},
                 elems \in SUBSET Features}

DictValues(values) ==
    UNION {{DictLiteral(items) : items \in [keys -> values]} : keys \in SUBSET Features}

\* The values of the dicts: a number, the tests' object, the sets of features,
\* and the dicts that have a set of features for the first feature.
ItemValues ==
    {Literal(type, EmptyDict, {}) : type \in {"int", "ExampleNonRestorableRepr"}}
        \cup {SetLiteral(elems) : elems \in SUBSET Features}
        \cup {DictLiteral([k \in {FeatureNames[1]} |-> SetLiteral(elems)]) :
                 elems \in SUBSET Features}

DataValues == FlatValues \cup DictValues(ItemValues)

\* dataio.save_literals(path, data)
SaveLiterals(data) ==
    LET out == save_literals(data)
    IN  /\ Becomes(Current, held, out.raised, Saved(data, out.file))
        /\ last' = last
        /\ age' = age

NextDataio == \E data \in DataValues : SaveLiterals(data)

SpecDataio == Init /\ [][NextDataio]_vars

\* The last step was database.save(path) and then load(path) of a new
\* database, and this file was written.
SavedAndLoaded(file) ==
    [op |-> "save_load", key |-> NoKey, repeat |-> FALSE, lost |-> FALSE, file |-> file]

\* database.save(path), and then load(path) of a new DependencyDatabase, with
\* which the caller goes on.  When save raises, nothing is loaded.
SaveAndLoad ==
    LET saved == save(Current)
        loaded == load(State(heap, EmptyDict, EmptyDict), saved.file)
    IN  /\ Calls
        /\ IF saved.raised # "none"
           THEN Becomes(Current, held, saved.raised, SavedAndLoaded(saved.file))
           ELSE Becomes(loaded.st, held, loaded.raised, SavedAndLoaded(saved.file))
        /\ last' = last

NextSaveIterable ==
    \/ NextIterable
    \/ SaveAndLoad

SpecSaveIterable == Init /\ [][NextSaveIterable]_vars

----------------------------------------------------------------------------
(* Text *)

\* A str is a sequence of symbols: the characters "#", " ", ".", "_" and
\* "\n", and words of letters and digits, which stand for their characters.
\* Words that are adjacent make one longer word.
IsWord(c) == c \notin {"#", " ", ".", "\n"}

\* name.startswith("_")
startswith_underscore(name) == name # <<>> /\ name[1] = "_"

\* The str is (?:\w+\.)*\w+
IsIdentifier(text) ==
    /\ text # <<>>
    /\ IsWord(text[1])
    /\ IsWord(text[Len(text)])
    /\ \A i \in 1..Len(text) :
           \/ IsWord(text[i])
           \/ text[i] = "." /\ IsWord(text[i - 1]) /\ IsWord(text[i + 1])

\* The pieces of an identifier between its dots: object_token.split(".")
RECURSIVE split(_)
split(text) ==
    IF \A i \in 1..Len(text) : text[i] # "."
    THEN <<text>>
    ELSE LET dot == CHOOSE i \in 1..Len(text) :
                        text[i] = "." /\ \A j \in 1..(i - 1) : text[j] # "."
         IN  <<SubSeq(text, 1, dot - 1)>> \o split(SubSeq(text, dot + 1, Len(text)))

\* The text of a node with the default delimiters: ##identifier##
Node(identifier) == <<"#", "#">> \o identifier \o <<"#", "#">>

\* The node pattern ##(?P<identifier>(?:\w+\.)*\w+)## at position i of the
\* text: the position of the last symbol of the match, or 0 for no match.
match_node(text, i) ==
    IF i + 1 <= Len(text) /\ text[i] = "#" /\ text[i + 1] = "#"
    THEN LET closing == {j \in (i + 2)..Len(text) : text[j] = "#"}
             j == CHOOSE k \in closing : \A m \in closing : k <= m
         IN  IF closing # {}
             THEN IF /\ j + 1 <= Len(text)
                     /\ text[j + 1] = "#"
                     /\ IsIdentifier(SubSeq(text, i + 2, j - 1))
                  THEN j + 1
                  ELSE 0
             ELSE 0
    ELSE 0

----------------------------------------------------------------------------
(* The values of a preprocessor context *)

\* A Python object: its type, its str (of a str, an int or a bool, and the
\* name of a method) and its items (of a dict).
Value(type, text, items) == [type |-> type, text |-> text, items |-> items]

Str(text) == Value("str", text, EmptyDict)

Integer(text) == Value("int", text, EmptyDict)

Bool(b) == Value("bool", IF b THEN <<"True">> ELSE <<"False">>, EmptyDict)

None == Value("NoneType", <<>>, EmptyDict)

Dict(items) == Value("dict", <<>>, items)

Method(name) == Value("method", name, EmptyDict)

\* The public methods of PreprocessorContext and of its base class: the
\* keywords of the mini-language.
Keywords ==
    {<<"set">>, <<"if", "_">>, <<"insert">>, <<"include">>, <<"write">>,
     <<"error">>, <<"warning">>, <<"get">>, <<"interpret">>}

\* An exception: its type and what it is about.
Exception(type, about) == [type |-> type, about |-> about]

NoException == Exception("none", <<>>)

\* The context object: a Value of its own type whose items are its instance
\* variables, vars(self).
Context(variables) == Value("PreprocessorContext", <<>>, variables)

\* getattr(object_, name): the attribute, or AttributeError.  The instance
\* variables of a context come before the methods of its class.  The names of
\* the model are no attributes of the built-in types.
getattr(object_, name) ==
    IF object_.type = "PreprocessorContext" /\ name \in DOMAIN object_.items
    THEN [raised |-> "none", value |-> object_.items[name]]
    ELSE IF object_.type = "PreprocessorContext" /\ name \in Keywords
    THEN [raised |-> "none", value |-> Method(name)]
    ELSE [raised |-> "AttributeError", value |-> None]

\* object_[name]: the item of a dict, or KeyError, or the TypeError of an
\* object that has no items.
getitem(object_, name) ==
    IF object_.type # "dict"
    THEN [raised |-> "TypeError", value |-> None]
    ELSE IF name \notin DOMAIN object_.items
    THEN [raised |-> "KeyError", value |-> None]
    ELSE [raised |-> "none", value |-> object_.items[name]]

\* functions.findvalue: the value, or the exception raised.
findvalue_Unguarded(object_, name) ==
    IF getattr(object_, name).raised = "none"
    THEN [raised |-> NoException, value |-> getattr(object_, name).value]
    ELSE IF getattr(object_, Append(name, "_")).raised = "none"
    THEN [raised |-> NoException, value |-> getattr(object_, Append(name, "_")).value]
    ELSE IF getitem(object_, name).raised = "none"
    THEN [raised |-> NoException, value |-> getitem(object_, name).value]
    ELSE [raised |-> Exception("DoxhooksLookupError", name), value |-> None]

findvalue(object_, name) ==
    IF startswith_underscore(name)
    THEN [raised |-> Exception("DoxhooksForbiddenLookupError", name), value |-> None]
    ELSE IF getattr(object_, name).raised = "none"
    THEN [raised |-> NoException, value |-> getattr(object_, name).value]
    ELSE IF getattr(object_, Append(name, "_")).raised = "none"
    THEN [raised |-> NoException, value |-> getattr(object_, Append(name, "_")).value]
    ELSE IF getitem(object_, name).raised = "none"
    THEN [raised |-> NoException, value |-> getitem(object_, name).value]
    ELSE [raised |-> Exception("DoxhooksLookupError", name), value |-> None]

\* BasePreprocessorContext._get_token_value: the 'member' operator within a
\* token, from the i-th identifier of the token on.
RECURSIVE get_token_value_from(_, _, _)
get_token_value_from(value, identifiers, i) ==
    IF i > Len(identifiers)
    THEN [raised |-> NoException, value |-> value]
    ELSE LET found == findvalue(value, identifiers[i])
         IN  IF found.raised # NoException
             THEN found
             ELSE get_token_value_from(found.value, identifiers, i + 1)

get_token_value(context, object_token) ==
    get_token_value_from(context, split(object_token), 1)

\* BasePreprocessorContext._convert_output_type_to_str, of a context class
\* without a bool representation.
convert_output_type_to_str(value, identifier) ==
    IF value.type \in {"str", "int"}
    THEN [raised |-> NoException, text |-> value.text]
    ELSE [raised |-> Exception("DoxhooksTypeError", identifier), text |-> <<>>]

\* BasePreprocessorContext.get
get(context, output_token) ==
    LET found == get_token_value(context, output_token)
    IN  IF found.raised # NoException
        THEN [raised |-> found.raised, text |-> <<>>]
        ELSE convert_output_type_to_str(found.value, output_token)

----------------------------------------------------------------------------
(* The directives of the preprocessor *)

\* The number of spaces, and of word symbols, from position i of the text on.
RECURSIVE spaces(_, _)
spaces(text, i) ==
    IF i <= Len(text) /\ text[i] = " " THEN 1 + spaces(text, i + 1) ELSE 0

RECURSIVE words(_, _)
words(text, i) ==
    IF i <= Len(text) /\ IsWord(text[i]) THEN 1 + words(text, i + 1) ELSE 0

NoDirective ==
    [matched |-> FALSE, indentation |-> <<>>, keyword |-> <<>>, block |-> <<>>]

\* The directive pattern
\* (?P<indentation>[ \t]*)##[ \t]*(?P<keyword>\w+)(?:[ \t]+(?P<block>.+))?[ \t]*\n$
\* matched at the start of the line.  The greedy block takes the rest of the
\* line with its trailing spaces; spaces alone after the keyword are no block,
\* or a block of one space, and either has no tokens.
match_directive(line) ==
    LET n == spaces(line, 1)
        m == spaces(line, n + 3)
        k == n + 3 + m
        w == words(line, k)
        r == k + w
        s == spaces(line, r)
        ends == {j \in r..Len(line) : line[j] = "\n"}
        stop == CHOOSE j \in ends : \A e \in ends : j <= e
    IN  IF ~(n + 2 <= Len(line) /\ line[n + 1] = "#" /\ line[n + 2] = "#")
        THEN NoDirective
        ELSE IF w = 0 \/ ends = {}
        THEN NoDirective
        ELSE IF ~(\/ stop = Len(line)
                  \/ stop = Len(line) - 1 /\ line[Len(line)] = "\n")
        THEN NoDirective
        ELSE IF s = 0 /\ stop # r
        THEN NoDirective
        ELSE [matched |-> TRUE,
              indentation |-> SubSeq(line, 1, n),
              keyword |-> SubSeq(line, k, r - 1),
              block |-> IF r + s < stop
                        THEN SubSeq(line, r + s, stop - 1)
                        ELSE IF s >= 2 THEN <<" ">> ELSE <<>>]

\* The number of symbols of a token from position i of the block on.
RECURSIVE token_symbols(_, _)
token_symbols(block, i) ==
    IF i <= Len(block) /\ block[i] \notin {" ", "#"}
    THEN 1 + token_symbols(block, i + 1)
    ELSE 0

\* shlex.split(block, comments=True) of a block without quotes and escapes:
\* the tokens between the spaces, up to a "#", which starts a comment.
RECURSIVE shlex_split(_)
shlex_split(block) ==
    IF block = <<>> \/ block[1] = "#"
    THEN <<>>
    ELSE IF block[1] = " "
    THEN shlex_split(Tail(block))
    ELSE LET n == token_symbols(block, 1)
         IN  <<SubSeq(block, 1, n)>>
                 \o shlex_split(SubSeq(block, n + 1, Len(block)))

\* The words that are decimal numbers.
Digits == {"1", "2"}

\* The value that PreprocessorContext.set gives a value token:
\* ast.literal_eval(value_token) of a token that is the text of a bool, of
\* None or of a number, and the token itself otherwise.
literal_value(value_token) ==
    IF value_token = <<"True">> THEN Bool(TRUE)
    ELSE IF value_token = <<"False">> THEN Bool(FALSE)
    ELSE IF value_token = <<"None">> THEN None
    ELSE IF \A i \in 1..Len(value_token) : value_token[i] \in Digits
    THEN Integer(value_token)
    ELSE Str(value_token)

----------------------------------------------------------------------------
(* The preprocessor *)

\* The depth of nested insertions and nodes at which Python gives up.
RecursionLimit == 4

RecursionError == Exception("RuntimeError", <<"maximum recursion depth exceeded">>)

\* A Preprocessor and what it has done: its context, its input_files, its
\* _indentation, what it has written to the output file, one str for each
\* write, and the filenames that it has passed to the open method of the
\* input file domain.  raised is the exception that its last call raised.
\* calls is the number of calls that its user has made.  encoding is the
\* encoding of the output file.  included is the filenames that were opened
\* for insert_file(filename, idempotent=True).
Preprocessor(context) ==
    [context |-> context, input_files |-> {}, indentation |-> <<>>,
     output |-> <<>>, opened |-> <<>>, raised |-> NoException, calls |-> 0,
     encoding |-> "utf-8", included |-> <<>>]

Raise(pp, exception) == [pp EXCEPT !.raised = exception]

\* The value of what is evaluated once and used more than once: the element
\* of a set of one element.
TheOne(values) == CHOOSE value \in values : TRUE

\* The preprocessor during a call, with the error traces that the call has
\* written to stderr and the number of insert_lines calls that the exception
\* has ended, and the preprocessor that is left of it after the call.
Tracing(pp) == [traces |-> <<>>, frames |-> 0] @@ pp

Untraced(pp) == [field \in DOMAIN pp \ {"traces", "frames"} |-> pp[field]]

\* The exception leaves a call of insert_lines.
Unwinds(pp) == [pp EXCEPT !.frames = pp.frames + 1]

\* console.error_trace(location, source) while the exception is handled: the
\* location is the number of the line in insert_lines and the identifier of
\* the node in _flatten_node.
LineNo(line_no) == [line |-> line_no]

NodeId(identifier) == [node |-> identifier]

Trace(location, source, exception) ==
    [location |-> location, source |-> source, exception |-> exception]

\* console.error_trace that writes nothing.
error_trace_Silent(pp, traces) == pp

error_trace(pp, traces) == [pp EXCEPT !.traces = pp.traces \o traces]

\* The result of replacing the nodes of a text.
Replaced(exception, text, traces) ==
    [raised |-> exception, text |-> text, traces |-> traces]

\* The position of the first match of the node pattern in the text from
\* position i on, or the position after the text.
next_node(text, i) ==
    LET matches == {j \in i..Len(text) : match_node(text, j) # 0}
    IN  IF matches = {}
        THEN Len(text) + 1
        ELSE CHOOSE j \in matches : \A k \in matches : j <= k

\* The node pattern replaced by the value of the node as it is, with the
\* nodes of the value left in it.
RECURSIVE replace_nodes_Once(_, _, _, _)
replace_nodes_Once(context, text, i, depth) ==
    IF i > Len(text)
    THEN Replaced(NoException, <<>>, <<>>)
    ELSE LET end == match_node(text, i)
             Value_(node_value) == Replaced(node_value.raised, node_value.text, <<>>)
             next == IF end = 0 THEN next_node(text, i) ELSE end + 1
             Flat == IF end = 0
                     THEN Replaced(NoException, SubSeq(text, i, next - 1), <<>>)
                     ELSE TheOne({Value_(node_value) :
                                     node_value \in {get(context, SubSeq(text, i + 2, end - 2))}})
             Joined(flat, rest) ==
                 IF rest.raised # NoException
                 THEN rest
                 ELSE Replaced(NoException, flat.text \o rest.text, <<>>)
             Rest(flat) ==
                 IF flat.raised # NoException
                 THEN flat
                 ELSE TheOne({Joined(flat, rest) :
                                 rest \in {replace_nodes_Once(context, text, next, depth)}})
         IN  TheOne({Rest(flat) : flat \in {Flat}})

\* The node pattern replaced in the text from position i on (the text up to
\* the next match is kept), with Preprocessor._flatten_node as the
\* replacement function: the value of the
\* node in the context, with its nodes replaced.  An exception of the
\* replacement in the value is traced with the node and raised again; an
\* exception of self._context.get is raised before the try statement.
RECURSIVE replace_nodes(_, _, _, _)
replace_nodes(context, text, i, depth) ==
    IF i > Len(text)
    THEN Replaced(NoException, <<>>, <<>>)
    ELSE LET end == match_node(text, i)
             identifier == SubSeq(text, i + 2, end - 2)
             Traced(node_value, flattened) ==
                 IF flattened.raised # NoException
                 THEN Replaced(flattened.raised, <<>>,
                               Append(flattened.traces,
                                      Trace(NodeId(identifier), node_value.text,
                                            flattened.raised)))
                 ELSE flattened
             Flattened(node_value) ==
                 IF node_value.raised # NoException
                 THEN Replaced(node_value.raised, <<>>, <<>>)
                 ELSE TheOne({Traced(node_value, flattened) :
                                 flattened \in {replace_nodes(context, node_value.text,
                                                              1, depth - 1)}})
             next == IF end = 0 THEN next_node(text, i) ELSE end + 1
             Flat == IF end = 0
                     THEN Replaced(NoException, SubSeq(text, i, next - 1), <<>>)
                     ELSE IF depth = 0
                     THEN Replaced(RecursionError, <<>>, <<>>)
                     ELSE TheOne({Flattened(node_value) :
                                     node_value \in {get(context, identifier)}})
             Joined(flat, rest) ==
                 IF rest.raised # NoException
                 THEN rest
                 ELSE Replaced(NoException, flat.text \o rest.text, <<>>)
             Rest(flat) ==
                 IF flat.raised # NoException
                 THEN flat
                 ELSE TheOne({Joined(flat, rest) :
                                 rest \in {replace_nodes(context, text, next, depth)}})
         IN  TheOne({Rest(flat) : flat \in {Flat}})

\* Preprocessor._eval_line that gives up below the nodes of the line.
eval_line_Shallow(context, line, depth) == replace_nodes(context, line, 1, 1)

\* Preprocessor._eval_line
eval_line(context, line, depth) == replace_nodes(context, line, 1, depth)

\* A word of characters that the ascii encoding does not have (the symbol
\* stands for it), and the exception of writing it to a file with that
\* encoding.
NonAscii == "caf_e_acute"

UnicodeEncodeError == Exception("UnicodeEncodeError", <<NonAscii>>)

\* self._output.write(text): the text file encodes the text.
write_output(pp, text) ==
    IF pp.encoding = "ascii" /\ \E i \in 1..Len(text) : text[i] = NonAscii
    THEN Raise(pp, UnicodeEncodeError)
    ELSE [pp EXCEPT !.output = Append(pp.output, text)]

\* self._output.write in insert_lines: no indentation without content, and
\* nothing for an empty line.
written(pp, indentation, output_line) ==
    IF output_line = <<"\n">>
    THEN write_output(pp, <<"\n">>)
    ELSE IF output_line # <<>>
    THEN write_output(pp, indentation \o output_line)
    ELSE pp

----------------------------------------------------------------------------
(* The input files *)

\* A line of text, and a directive line: indentation, "##", the keyword and
\* the tokens, each after a space.
Line(text) == Append(text, "\n")

RECURSIVE spaced(_)
spaced(tokens) ==
    IF tokens = <<>> THEN <<>> ELSE <<" ">> \o Head(tokens) \o spaced(Tail(tokens))

Directive(indentation, keyword, tokens) ==
    Line(indentation \o <<"#", "#">> \o keyword \o spaced(tokens))

\* The files of the input file domain: filename -> lines.
\*   root     text, an indented insert of `part`, and an include of itself
\*   part     a line with a node
\*   bad      text, and then an error directive
\*   loop     an insert of itself
\*   outer    text, an indented insert of `inner`, and text
\*   inner    an indented insert of `part`, a line that is "\n" after its
\*            node is replaced, a line that is "" then, and text
\*   failing  text, an indented insert of `bad`, and text
\*   accent   text, a line that ascii cannot encode, and text
\*   ring1    text and an include of `ring2`
\*   ring2    text and an include of `ring1`
\*   swing1   text and an insert of `swing2`
\*   swing2   an insert of `swing1`
\* There is no file `missing`.
InputFiles ==
    <<"root">> :> <<Line(<<"Title">>),
                    Directive(<<" ", " ">>, <<"insert">>, <<(<<"part">>)>>),
                    Directive(<<>>, <<"include">>, <<(<<"root">>)>>)>>
    @@ <<"part">> :> <<Line(<<"Part", " ">> \o Node(<<"child">>))>>
    @@ <<"bad">> :> <<Line(<<"first">>),
                      Directive(<<>>, <<"error">>, <<(<<"boom">>)>>)>>
    @@ <<"loop">> :> <<Directive(<<>>, <<"insert">>, <<(<<"loop">>)>>)>>
    @@ <<"outer">> :> <<Line(<<"Outer">>),
                       Directive(<<" ">>, <<"insert">>, <<(<<"inner">>)>>),
                       Line(<<"After">>)>>
    @@ <<"inner">> :> <<Directive(<<" ", " ">>, <<"insert">>, <<(<<"part">>)>>),
                       Line(Node(<<"empty">>)),
                       Node(<<"empty">>),
                       Line(<<"Inner">>)>>
    @@ <<"failing">> :> <<Line(<<"Failing">>),
                         Directive(<<" ">>, <<"insert">>, <<(<<"bad">>)>>),
                         Line(<<"After">>)>>
    @@ <<"accent">> :> <<Line(<<"Menu">>), Line(<<NonAscii>>), Line(<<"After">>)>>
    @@ <<"ring1">> :> <<Line(<<"One">>),
                       Directive(<<>>, <<"include">>, <<(<<"ring2">>)>>)>>
    @@ <<"ring2">> :> <<Line(<<"Two">>),
                       Directive(<<>>, <<"include">>, <<(<<"ring1">>)>>)>>
    @@ <<"swing1">> :> <<Line(<<"Swing">>),
                        Directive(<<>>, <<"insert">>, <<(<<"swing2">>)>>)>>
    @@ <<"swing2">> :> <<Directive(<<>>, <<"insert">>, <<(<<"swing1">>)>>)>>

root_input_filename == Str(<<"root">>)

----------------------------------------------------------------------------
(* The keywords of the context and the insertions of the preprocessor *)

\* The numbers of tokens that the parameters of a keyword take: at least min,
\* and no more than that unless the keyword has a *tokens parameter.
Parameters ==
    <<"set">> :> [min |-> 2, more |-> FALSE]
    @@ <<"if", "_">> :> [min |-> 2, more |-> TRUE]
    @@ <<"insert">> :> [min |-> 1, more |-> TRUE]
    @@ <<"include">> :> [min |-> 1, more |-> TRUE]
    @@ <<"write">> :> [min |-> 1, more |-> FALSE]
    @@ <<"error">> :> [min |-> 1, more |-> FALSE]
    @@ <<"warning">> :> [min |-> 1, more |-> FALSE]
    @@ <<"get">> :> [min |-> 1, more |-> FALSE]
    @@ <<"interpret">> :> [min |-> 1, more |-> TRUE]

\* keyword(*tokens, preprocessor=preprocessor) does not raise the TypeError
\* of a call with too few or too many arguments.
Fits(keyword, tokens) ==
    /\ Len(tokens) >= Parameters[keyword].min
    /\ Parameters[keyword].more \/ Len(tokens) = Parameters[keyword].min

BadSyntax == Exception("DoxhooksDataError", <<"Bad syntax:">>)

\* PreprocessorContext._get_filename: the value of the token when it has one,
\* and the token itself otherwise.
get_filename(context, file_token) ==
    LET found == get_token_value(context, file_token)
        value == IF found.raised # NoException THEN Str(file_token) ELSE found.value
    IN  IF value.type \in {"str", "NoneType"}
        THEN [raised |-> NoException, value |-> value]
        ELSE [raised |-> Exception("DoxhooksTypeError", file_token), value |-> None]

\* setattr(self, identifier, value)
setattr(context, identifier, value) ==
    Context(DictSet(context.items, identifier, value))

RECURSIVE insert_lines_from(_, _, _, _, _)
RECURSIVE insert_file(_, _, _, _)
RECURSIVE insert_files(_, _, _, _, _)
RECURSIVE interpret(_, _, _, _)
RECURSIVE keyword_call(_, _, _, _)

\* Preprocessor.insert_lines: the lines are evaluated in their order with
\* the indentation that the preprocessor had when the call started, and the
\* first exception ends the call.
insert_lines(pp, lines, depth) ==
    IF depth = 0
    THEN Raise(pp, RecursionError)
    ELSE insert_lines_from(pp, lines, 1, pp.indentation, depth)

\* The loop of insert_lines from the i-th line on.  A directive sets
\* _indentation (Preprocessor._eval_directive) and is interpreted in the
\* context; any other line is written with its nodes replaced.  An exception
\* of the directive or of the replacement is traced with the line and raised
\* again; the write to the output file is after the try statement.
insert_lines_from(pp, lines, i, indentation, depth) ==
    IF i > Len(lines)
    THEN pp
    ELSE LET Traced(failed, traces) ==
                 Unwinds(error_trace(failed,
                                     Append(traces,
                                            Trace(LineNo(i), lines[i], failed.raised))))
             Directed(evaluated) ==
                 IF evaluated.raised # NoException
                 THEN Traced(evaluated, <<>>)
                 ELSE evaluated
             Wrote(wrote) ==
                 IF wrote.raised # NoException THEN Unwinds(wrote) ELSE wrote
             Evaluated(output_line) ==
                 IF output_line.raised # NoException
                 THEN Traced(Raise(pp, output_line.raised), output_line.traces)
                 ELSE TheOne({Wrote(wrote) :
                                 wrote \in {written(pp, indentation, output_line.text)}})
             Matched(directive) ==
                 IF directive.matched
                 THEN TheOne({Directed(evaluated) :
                                 evaluated \in {interpret(
                                     [pp EXCEPT !.indentation =
                                                    indentation \o directive.indentation],
                                     directive.keyword, shlex_split(directive.block),
                                     depth - 1)}})
                 ELSE TheOne({Evaluated(output_line) :
                                 output_line \in {eval_line(pp.context, lines[i], depth - 1)}})
             Continued(after) ==
                 IF after.raised # NoException
                 THEN after
                 ELSE insert_lines_from(after, lines, i + 1, indentation, depth)
         IN  TheOne({Continued(after) :
                        after \in {TheOne({Matched(directive) :
                                              directive \in {match_directive(lines[i])}})}})

\* Preprocessor.insert_file without the test of the input_files.
insert_file_Always(pp, filename, idempotent, depth) ==
    IF filename.type = "NoneType" \/ filename.text = <<>>
    THEN pp
    ELSE LET added == [pp EXCEPT !.input_files = pp.input_files \cup {filename.text},
                                 !.opened = Append(pp.opened, filename.text),
                                 !.included = IF idempotent
                                              THEN Append(pp.included, filename.text)
                                              ELSE pp.included]
         IN  IF filename.text \notin DOMAIN InputFiles
             THEN Raise(added, Exception("DoxhooksFileSystemError", filename.text))
             ELSE insert_lines(added, InputFiles[filename.text], depth)

\* Preprocessor.insert_file that adds the filename to input_files after the
\* lines of the file.
insert_file_AddsAfter(pp, filename, idempotent, depth) ==
    IF filename.type = "NoneType" \/ filename.text = <<>>
    THEN pp
    ELSE IF idempotent /\ filename.text \in pp.input_files
    THEN pp
    ELSE LET opening == [pp EXCEPT !.opened = Append(pp.opened, filename.text),
                                   !.included = IF idempotent
                                                THEN Append(pp.included, filename.text)
                                                ELSE pp.included]
             Added(inserted) ==
                 [inserted EXCEPT !.input_files = inserted.input_files \cup {filename.text}]
         IN  IF filename.text \notin DOMAIN InputFiles
             THEN Raise(opening, Exception("DoxhooksFileSystemError", filename.text))
             ELSE TheOne({Added(inserted) :
                             inserted \in {insert_lines(opening, InputFiles[filename.text],
                                                        depth)}})

\* Preprocessor.insert_file: the filename is added to input_files before the
\* input file domain opens the file.
insert_file(pp, filename, idempotent, depth) ==
    IF filename.type = "NoneType" \/ filename.text = <<>>
    THEN pp
    ELSE IF idempotent /\ filename.text \in pp.input_files
    THEN pp
    ELSE LET added == [pp EXCEPT !.input_files = pp.input_files \cup {filename.text},
                                 !.opened = Append(pp.opened, filename.text),
                                 !.included = IF idempotent
                                              THEN Append(pp.included, filename.text)
                                              ELSE pp.included]
         IN  IF filename.text \notin DOMAIN InputFiles
             THEN Raise(added, Exception("DoxhooksFileSystemError", filename.text))
             ELSE insert_lines(added, InputFiles[filename.text], depth)

\* The loop of PreprocessorContext.insert and include from the i-th token on.
insert_files(pp, tokens, i, idempotent, depth) ==
    IF i > Len(tokens)
    THEN pp
    ELSE LET filename == get_filename(pp.context, tokens[i])
             Inserted_(inserted) ==
                 IF inserted.raised # NoException
                 THEN inserted
                 ELSE insert_files(inserted, tokens, i + 1, idempotent, depth)
         IN  IF filename.raised # NoException
             THEN Raise(pp, filename.raised)
             ELSE TheOne({Inserted_(inserted) :
                             inserted \in {insert_file(pp, filename.value, idempotent,
                                                       depth)}})

\* BasePreprocessorContext.interpret with every exception of the keyword
\* raised again as the DoxhooksDataError of bad syntax.
interpret_BadSyntaxForAll(pp, keyword_token, tokens, depth) ==
    LET keyword == findvalue(pp.context, keyword_token)
        Called_(called) ==
            IF called.raised # NoException THEN Raise(called, BadSyntax) ELSE called
    IN  IF keyword.raised # NoException
        THEN Raise(pp, keyword.raised)
        ELSE IF keyword.value.type # "method"
        THEN Raise(pp, Exception("DoxhooksTypeError", keyword_token))
        ELSE IF ~Fits(keyword.value.text, tokens)
        THEN Raise(pp, BadSyntax)
        ELSE TheOne({Called_(called) :
                        called \in {keyword_call(pp, keyword.value.text, tokens, depth)}})

\* BasePreprocessorContext.interpret: the keyword is a value of the context
\* and is called with the tokens.  The TypeError of a call with too few or too
\* many tokens starts with the name of the keyword and "()", and is raised
\* again as the DoxhooksDataError of bad syntax.
interpret(pp, keyword_token, tokens, depth) ==
    LET keyword == findvalue(pp.context, keyword_token)
    IN  IF keyword.raised # NoException
        THEN Raise(pp, keyword.raised)
        ELSE IF keyword.value.type # "method"
        THEN Raise(pp, Exception("DoxhooksTypeError", keyword_token))
        ELSE IF ~Fits(keyword.value.text, tokens)
        THEN Raise(pp, BadSyntax)
        ELSE keyword_call(pp, keyword.value.text, tokens, depth)

\* The public methods of the context, called with tokens that fit their
\* parameters.
keyword_call(pp, keyword, tokens, depth) ==
    CASE keyword = <<"set">> ->
             [pp EXCEPT !.context = setattr(pp.context, tokens[1], literal_value(tokens[2]))]
      [] keyword = <<"if", "_">> ->
             LET condition == get_token_value(pp.context, tokens[1])
             IN  IF condition.raised # NoException
                 THEN Raise(pp, condition.raised)
                 ELSE IF condition.value.type # "bool"
                 THEN Raise(pp, Exception("DoxhooksTypeError", tokens[1]))
                 ELSE IF condition.value = Bool(TRUE)
                 THEN interpret(pp, tokens[2], SubSeq(tokens, 3, Len(tokens)), depth)
                 ELSE pp
      [] keyword = <<"insert">> -> insert_files(pp, tokens, 1, FALSE, depth)
      [] keyword = <<"include">> -> insert_files(pp, tokens, 1, TRUE, depth)
      [] keyword = <<"write">> -> insert_lines(pp, <<Line(tokens[1])>>, depth)
      [] keyword = <<"error">> -> Raise(pp, Exception("DoxhooksDataError", tokens[1]))
      [] keyword = <<"warning">> -> pp
      [] keyword = <<"get">> ->
             LET value == get(pp.context, tokens[1])
             IN  IF value.raised # NoException THEN Raise(pp, value.raised) ELSE pp
      [] keyword = <<"interpret">> -> interpret(pp, tokens[1], Tail(tokens), depth)

\* Preprocessor.start
start(pp) == insert_file(pp, root_input_filename, TRUE, RecursionLimit)

----------------------------------------------------------------------------
(* The steps of a user of the preprocessor *)

MaxCalls == 3

\* The variables of a context without a "#" in a value that is no part of a
\* node, and of a context with a value that is a delimiter.
TidyVariables ==
    <<"child">> :> Str(<<"X">>)
    @@ <<"parent">> :> Str(<<"Y", " ">> \o Node(<<"child">>))
    @@ <<"flag">> :> Bool(TRUE)
    @@ <<"_", "secret">> :> Str(<<"s">>)

StrayVariables ==
    TidyVariables @@ <<"hash">> :> Str(<<"#", "#">>)

Contexts == {Context(TidyVariables), Context(StrayVariables)}

\* The filenames that the user passes to insert_file: the files, a file that
\* does not exist, the empty str and None.
Filenames ==
    {Str(name) : name \in {<<"root">>, <<"part">>, <<"bad">>, <<"loop">>}}
        \cup {Str(<<"missing">>), Str(<<>>), None}

\* The lines that the user passes to insert_lines.
Lines ==
    {<<Directive(<<" ", " ">>, <<"set">>, <<(<<"foo">>), (<<"bar">>)>>)>>,
     <<Line(<<"No", " ", "indent", ".">>)>>,
     <<Line(Node(<<"parent">>))>>,
     <<Line(Node(<<"hash">>) \o <<"child">> \o Node(<<"hash">>))>>,
     <<Line(Node(<<"_", "secret">>))>>,
     <<Directive(<<>>, <<"set">>, <<(<<"_", "secret">>), (<<"1">>)>>)>>,
     <<Directive(<<>>, <<"set">>, <<(<<"_", "new">>), (<<"1">>)>>)>>,
     <<Directive(<<>>, <<"set">>, <<(<<"flag">>)>>)>>,
     <<Directive(<<>>, <<"flag">>, <<>>)>>,
     <<Directive(<<>>, <<"error">>, <<(<<"boom">>)>>)>>,
     <<Directive(<<>>, <<"if">>, <<(<<"flag">>), (<<"error">>), (<<"boom">>)>>)>>,
     <<Directive(<<>>, <<"if">>, <<(<<"flag">>), (<<"set">>), (<<"flag">>)>>)>>,
     <<Directive(<<>>, <<"if">>, <<(<<"flag">>), (<<"insert">>), (<<"missing">>)>>)>>,
     <<Directive(<<>>, <<"nokeyword">>, <<(<<"x">>)>>)>>}

\* The last step was a call of the preprocessor: start(),
\* insert_file(filename, idempotent) or insert_lines(lines).  The filename was
\* in input_files before the call (repeat).
Inserted(operation, filename, idempotent, lines) ==
    [op |-> operation, key |-> NoKey,
     repeat |-> filename.text \in preprocessor.input_files, lost |-> FALSE,
     file |-> NoFile, filename |-> filename, idempotent |-> idempotent,
     lines |-> lines]

InitPreprocessor ==
    /\ heap = EmptyDatabase.heap
    /\ features_products = EmptyDatabase.fp
    /\ products_features = EmptyDatabase.pf
    /\ held = NotHeld
    /\ raised = "none"
    /\ call = Called("init", NoKey, FALSE, FALSE)
    /\ last = [p \in Products |-> NeverUpdated]
    /\ age = 0
    /\ preprocessor \in {Preprocessor(context) : context \in Contexts}
    /\ NothingElse(urls, output_roots, filesystem)

\* The preprocessor at the start of a call of its user, who makes at most
\* MaxCalls calls.
Calling ==
    [preprocessor EXCEPT !.raised = NoException, !.calls = preprocessor.calls + 1]

\* The preprocessor after the call, and nothing else changes.
Returns(pp, operation) ==
    /\ preprocessor.calls < MaxCalls
    /\ \E returned \in {pp} :
           /\ preprocessor' = Untraced(returned)
           /\ raised' = returned.raised.type
           /\ call' = [traces |-> returned.traces, frames |-> returned.frames] @@ operation
    /\ UNCHANGED <<heap, features_products, products_features, held, last, age>>
    /\ UNCHANGED <<urls, output_roots, filesystem>>

Start ==
    Returns(start(Tracing(Calling)), Inserted("start", root_input_filename, TRUE, <<>>))

InsertFile(filename, idempotent) ==
    Returns(insert_file(Tracing(Calling), filename, idempotent, RecursionLimit),
            Inserted("insert_file", filename, idempotent, <<>>))

InsertLines(lines) ==
    Returns(insert_lines(Tracing(Calling), lines, RecursionLimit),
            Inserted("insert_lines", None, FALSE, lines))

NextPreprocessor ==
    \/ Start
    \/ \E filename \in Filenames, idempotent \in BOOLEAN :
           InsertFile(filename, idempotent)
    \/ \E lines \in Lines : InsertLines(lines)

SpecPreprocessor == InitPreprocessor /\ [][NextPreprocessor]_vars

----------------------------------------------------------------------------
(* The steps of a user who nests insertions *)

\* The variables of a context with an empty value, with a variable whose
\* value is a node of itself, and with two variables whose values are nodes
\* of each other.
NestingVariables ==
    TidyVariables
    @@ <<"empty">> :> Str(<<>>)
    @@ <<"selfref">> :> Str(Node(<<"selfref">>))
    @@ <<"ping">> :> Str(<<"to", " ">> \o Node(<<"pong">>))
    @@ <<"pong">> :> Str(Node(<<"ping">>))

\* The encodings of the output file that the user opens.
Encodings == {"utf-8", "ascii"}

\* The filenames that the user passes to insert_file.
NestingFilenames ==
    {Str(name) : name \in {<<"outer">>, <<"inner">>, <<"failing">>, <<"accent">>,
                           <<"ring1">>, <<"swing1">>, <<"loop">>, <<"root">>}}

\* The lines that the user passes to insert_lines.
NestingLines ==
    {<<Directive(<<" ">>, <<"insert">>, <<(<<"inner">>)>>), Line(<<"End">>)>>,
     <<Directive(<<>>, <<"insert">>, <<(<<"inner">>), (<<"part">>)>>)>>,
     <<Directive(<<" ">>, <<"insert">>, <<(<<"accent">>)>>), Line(<<"End">>)>>,
     <<Line(<<"Top">>), Directive(<<" ">>, <<"insert">>, <<(<<"failing">>)>>),
       Line(<<"End">>)>>,
     <<Directive(<<>>, <<"include">>, <<(<<"ring2">>), (<<"ring1">>)>>)>>,
     <<Directive(<<>>, <<"include">>, <<(<<"swing2">>)>>)>>,
     <<Line(<<"Top">>), Line(Node(<<"nokey">>)), Line(<<"End">>)>>,
     <<Line(Node(<<"parent">>))>>,
     <<Line(Node(<<"selfref">>))>>,
     <<Line(<<"Go", " ">> \o Node(<<"ping">>))>>,
     <<Line(Node(<<"child">>) \o Node(<<"empty">>))>>,
     <<Line(Node(<<"nokey">>) \o Node(<<"selfref">>))>>}

InitInsertions ==
    /\ heap = EmptyDatabase.heap
    /\ features_products = EmptyDatabase.fp
    /\ products_features = EmptyDatabase.pf
    /\ held = NotHeld
    /\ raised = "none"
    /\ call = Called("init", NoKey, FALSE, FALSE)
    /\ last = [p \in Products |-> NeverUpdated]
    /\ age = 0
    /\ preprocessor \in {[Preprocessor(Context(NestingVariables))
                              EXCEPT !.encoding = encoding] : encoding \in Encodings}
    /\ NothingElse(urls, output_roots, filesystem)

NextInsertions ==
    \/ Start
    \/ \E filename \in NestingFilenames, idempotent \in BOOLEAN :
           InsertFile(filename, idempotent)
    \/ \E lines \in NestingLines : InsertLines(lines)

SpecInsertions == InitInsertions /\ [][NextInsertions]_vars

----------------------------------------------------------------------------
(* Looking up the value of a token *)

MaxSegments == 3

\* The last step was context._get_token_value(token) and raised an exception
\* about this name.
LookedUp(context, token, about) ==
    [op |-> "get_token_value", key |-> NoKey, repeat |-> FALSE, lost |-> FALSE,
     file |-> NoFile, context |-> context, token |-> token, about |-> about]

\* A dict with a public item and an item whose name starts with an underscore.
LookupItems ==
    Dict(<<"c">> :> Str(<<"x">>) @@ <<"_", "secret">> :> Str(<<"s">>))

\* A context without variables, and a context with a str, a dict and a
\* variable whose name starts with an underscore.
LookupContexts ==
    {Context(EmptyDict),
     Context(<<"a">> :> Str(<<"x">>) @@ <<"b">> :> LookupItems
                 @@ <<"_", "secret">> :> Str(<<"s">>))}

\* The identifiers of the tokens: names that the contexts have and names that
\* they do not have, with and without an underscore, and the name of a keyword
\* that is an attribute with a trailing underscore.
Segments ==
    {<<"a">>, <<"b">>, <<"c">>, <<"_", "secret">>, <<"missing">>, <<"if">>}

\* ".".join(identifiers)
RECURSIVE join(_)
join(identifiers) ==
    IF Len(identifiers) = 1
    THEN identifiers[1]
    ELSE identifiers[1] \o <<".">> \o join(Tail(identifiers))

LookupTokens ==
    {join(ids) : ids \in UNION {[1..n -> Segments] : n \in 1..MaxSegments}}

GetTokenValue(context, token) ==
    LET out == get_token_value(context, token)
    IN  /\ Becomes(Current, held, out.raised.type,
                   LookedUp(context, token, out.raised.about))
        /\ last' = last
        /\ age' = age

NextLookup ==
    \E context \in LookupContexts, token \in LookupTokens :
        GetTokenValue(context, token)

SpecLookup == Init /\ [][NextLookup]_vars

----------------------------------------------------------------------------
(* The resource environment *)

\* The identities of the resource configurations, and an identity that is no
\* subscript of them.
ResourceConfigs == Products

UnconfiguredResource == "unconfigured"

\* What happens in config.make(...) and in resource.update(): make raises,
\* the resource fails to write its output, the URL of the resource is
\* rejected after the output was written, or update returns the input paths.
Outcomes ==
    [make   |-> "DoxhooksDataError",
     write  |-> "DoxhooksFileError",
     url    |-> "DoxhooksDataError",
     return |-> "none"]

\* ResourceEnvironment.update with the update of the database before the
\* resource is made.
update_RecordsFirst(st, resource_id, outcome, input_paths) ==
    IF resource_id \notin ResourceConfigs
    THEN {[st |-> st, raised |-> "DoxhooksLookupError"]}
    ELSE IF outcome # "return"
    THEN {[st |-> out.st, raised |-> Outcomes[outcome]] :
              out \in update_dependencies(st, resource_id, input_paths)}
    ELSE update_dependencies(st, resource_id, input_paths)

\* ResourceEnvironment.update: the states and exceptions that the call can end
\* with.  input_paths is the set of paths of the input file domain of the
\* resource.
update(st, resource_id, outcome, input_paths) ==
    IF resource_id \notin ResourceConfigs
    THEN {[st |-> st, raised |-> "DoxhooksLookupError"]}
    ELSE IF outcome # "return"
    THEN {[st |-> st, raised |-> Outcomes[outcome]]}
    ELSE update_dependencies(st, resource_id, input_paths)

\* The last step was environment.update(resource_id) with this outcome of
\* making and updating the resource, which had opened these input paths.
EnvironmentUpdated(resource_id, outcome, elems) ==
    [op |-> "update", key |-> resource_id, repeat |-> FALSE, lost |-> FALSE,
     file |-> NoFile, outcome |-> outcome, paths |-> elems]

\* environment.update(resource_id): the resource and the set of its input
\* paths are objects of the call, and the caller holds neither after it.
Update(resource_id, outcome, elems) ==
    LET arg == NewSet(heap, elems)
        st == State(arg.heap, features_products, products_features)
    IN  /\ age' = age
        /\ \E out \in update(st, resource_id, outcome, SetArg(arg.ref)) :
               Becomes(out.st, NotHeld, out.raised,
                       EnvironmentUpdated(resource_id, outcome, elems))
        /\ last' = IF resource_id \in Products /\ outcome = "return"
                   THEN [last EXCEPT ![resource_id] = elems]
                   ELSE last

NextEnvironment ==
    \E resource_id \in ResourceConfigs \cup {UnconfiguredResource},
       outcome \in DOMAIN Outcomes, elems \in SUBSET Features :
        Update(resource_id, outcome, elems)

SpecEnvironment == Init /\ [][NextEnvironment]_vars

----------------------------------------------------------------------------
(* The URL mapping *)

\* The resource identities and the URLs (str or None) that the user of a
\* URLMapping has.
ResourceIds == {"example_id", "other_id", "third_id"}

URLs == {Str(<<"http://example.com/">>), Str(<<"http://example.com/different">>), None}

\* URLMapping(*args, **kwargs): the dicts that a mapping is made from.
URLMappings ==
    {EmptyDict} \cup {DictSet(EmptyDict, resource_id, url) :
                         resource_id \in ResourceIds, url \in URLs}

\* URLMapping.__setitem__ as the item assignment of a dict.
setitem_Overwrite(mapping, resource_id, url) ==
    [urls |-> DictSet(mapping, resource_id, url), raised |-> "none"]

\* URLMapping.__setitem__: the mapping after urls[resource_id] = url, and the
\* exception that it raised.
setitem(mapping, resource_id, url) ==
    IF resource_id \notin DOMAIN mapping
    THEN [urls |-> DictSet(mapping, resource_id, url), raised |-> "none"]
    ELSE LET previous_url == mapping[resource_id]
         IN  IF url # previous_url
             THEN [urls |-> mapping, raised |-> "RuntimeError"]
             ELSE [urls |-> mapping, raised |-> "none"]

\* URLMapping.__delitem__: del urls[resource_id].
delitem(mapping, resource_id) == [urls |-> mapping, raised |-> "RuntimeError"]

\* The last step of the user of the mapping.
Assigned(resource_id, url) == [op |-> "setitem", key |-> resource_id, url |-> url]

Deleted(resource_id) == [op |-> "delitem", key |-> resource_id, url |-> None]

InitURLMapping ==
    /\ heap = EmptyDatabase.heap
    /\ features_products = EmptyDatabase.fp
    /\ products_features = EmptyDatabase.pf
    /\ held = NotHeld
    /\ raised = "none"
    /\ call = [op |-> "init", key |-> NoKey, url |-> None]
    /\ last = [p \in Products |-> NeverUpdated]
    /\ age = 0
    /\ preprocessor = NoPreprocessor
    /\ urls \in URLMappings
    /\ output_roots = {}
    /\ filesystem = NoFileSystem

\* The mapping after an operation on it, and nothing else changes.
MappingBecomes(out, operation) ==
    /\ urls' = out.urls
    /\ raised' = out.raised
    /\ call' = operation
    /\ UNCHANGED <<heap, features_products, products_features, held, last, age,
                   preprocessor, output_roots, filesystem>>

SetItem(resource_id, url) ==
    MappingBecomes(setitem(urls, resource_id, url), Assigned(resource_id, url))

DelItem(resource_id) ==
    MappingBecomes(delitem(urls, resource_id), Deleted(resource_id))

NextURLMapping ==
    \/ \E resource_id \in ResourceIds, url \in URLs : SetItem(resource_id, url)
    \/ \E resource_id \in ResourceIds : DelItem(resource_id)

SpecURLMapping == InitURLMapping /\ [][NextURLMapping]_vars

----------------------------------------------------------------------------
(* Paths and the file system *)

MaxFileCalls == 3

\* A path as its user writes it: a drive ("" where the path has none), whether
\* it is absolute, and its components.  An absolute path after
\* os.path.abspath: a drive and the components after normalisation.
Path(drive, absolute, parts) == [drive |-> drive, absolute |-> absolute, parts |-> parts]

AbsPath(drive, parts) == [drive |-> drive, parts |-> parts]

\* os.pardir, and the components that are not os.pardir and start with it.
pardir == ".."

StartWithPardir == {"..", "..cache"}

\* os.path.normpath of the components of an absolute path: a ".." takes the
\* component before it away, and the root is its own parent.
RECURSIVE normpath_from(_, _, _)
normpath_from(done, parts, i) ==
    IF i > Len(parts) THEN done
    ELSE IF parts[i] = pardir
    THEN normpath_from(IF done = <<>> THEN <<>> ELSE SubSeq(done, 1, Len(done) - 1),
                       parts, i + 1)
    ELSE normpath_from(Append(done, parts[i]), parts, i + 1)

normpath(parts) == normpath_from(<<>>, parts, 1)

\* os.path.abspath: a relative path is joined to the current directory.
abspath(fs, path) ==
    IF path.absolute
    THEN AbsPath(path.drive, normpath(path.parts))
    ELSE AbsPath(fs.cwd.drive, normpath(fs.cwd.parts \o path.parts))

\* The number of leading components that two lists of components share.
commonprefix(a, b) ==
    CHOOSE n \in 0..Len(a) :
        /\ n <= Len(b)
        /\ SubSeq(a, 1, n) = SubSeq(b, 1, n)
        /\ n < Len(a) /\ n < Len(b) => a[n + 1] # b[n + 1]

\* os.path.relpath(path, start) of two absolute paths: ntpath raises
\* ValueError when the paths are on different drives, and posixpath has no
\* drives.
relpath(path, start_) ==
    IF path.drive # start_.drive
    THEN [raised |-> "ValueError", parts |-> <<>>]
    ELSE LET i == commonprefix(start_.parts, path.parts)
             rel_list == [k \in 1..(Len(start_.parts) - i) |-> pardir]
                             \o SubSeq(path.parts, i + 1, Len(path.parts))
         IN  [raised |-> "none",
              parts |-> IF rel_list = <<>> THEN <<".">> ELSE rel_list]

\* rel_path.startswith(os.pardir): the string starts with its first component.
startswith_pardir(rel_path) == rel_path[1] \in StartWithPardir

\* fileio.add_output_roots: the registry after the call.
add_output_roots(fs, roots, root_paths) ==
    roots \cup {abspath(fs, root_paths[i]) : i \in 1..Len(root_paths)}

\* fileio._check_output_path for one order of iterating over the set of
\* roots: the exception that it raises, or "none".
RECURSIVE check_output_path_from(_, _, _, _)
check_output_path_from(fs, order, path, i) ==
    IF i > Len(order) THEN "DoxhooksOutputPathError"
    ELSE LET rel_path == relpath(abspath(fs, path), order[i])
         IN  IF rel_path.raised # "none" THEN rel_path.raised
             ELSE IF ~startswith_pardir(rel_path.parts) THEN "none"
             ELSE check_output_path_from(fs, order, path, i + 1)

check_output_path(fs, roots, path) ==
    {check_output_path_from(fs, order, path, 1) : order \in Orders(roots)}

\* os.path.dirname.
dirname(path) ==
    [path EXCEPT !.parts = IF path.parts = <<>> THEN <<>>
                           ELSE SubSeq(path.parts, 1, Len(path.parts) - 1)]

basename(path) == IF path.parts = <<>> THEN "" ELSE path.parts[Len(path.parts)]

\* fileio._makedirs: os.makedirs makes the directories of the path from the
\* top down, and fails at a component that is a file.
makedirs(fs, path) ==
    LET directory_path == dirname(path)
        made(k) == abspath(fs, [directory_path EXCEPT
                                    !.parts = SubSeq(directory_path.parts, 1, k)])
        files == {k \in 0..Len(directory_path.parts) : made(k) \in DOMAIN fs.files}
        stop == IF files = {} THEN Len(directory_path.parts)
                ELSE (CHOOSE k \in files : \A j \in files : k <= j) - 1
    IN  IF ~directory_path.absolute /\ directory_path.parts = <<>>
        THEN [fs |-> fs, raised |-> "none"]
        ELSE [fs |-> [fs EXCEPT !.dirs = fs.dirs \cup {made(k) : k \in 0..stop}],
              raised |-> IF files = {} THEN "none" ELSE "DoxhooksFileSystemError"]

\* No file was written.
NoPath == AbsPath("-", <<>>)

\* builtins.open(path, "w") and write: the file is made or truncated; a
\* directory cannot be opened for writing.
write(fs, path, data) ==
    LET file == abspath(fs, path)
    IN  IF file \in fs.dirs
        THEN [fs |-> fs, raised |-> "DoxhooksFileSystemError", wrote |-> NoPath]
        ELSE [fs |-> [fs EXCEPT !.files = DictSet(fs.files, file, data)],
              raised |-> "none", wrote |-> file]

\* fileio._open(path, "w", encoding, newline): a newline for a binary file is
\* a DoxhooksValueError.
open(fs, path, data, binary_newline) ==
    IF binary_newline
    THEN [fs |-> fs, raised |-> "DoxhooksValueError", wrote |-> NoPath]
    ELSE write(fs, path, data)

\* fileio.open_output and fileio.save, which writes the data to the file that
\* open_output has opened: the file systems and exceptions that the call can
\* end with.
open_output(fs, roots, path, data, binary_newline) ==
    {IF checked # "none"
     THEN [fs |-> fs, raised |-> checked, wrote |-> NoPath]
     ELSE LET dirs == makedirs(fs, path)
          IN  IF dirs.raised # "none"
              THEN [fs |-> dirs.fs, raised |-> dirs.raised, wrote |-> NoPath]
              ELSE open(dirs.fs, path, data, binary_newline) :
         checked \in check_output_path(fs, roots, path)}

fileio_save(fs, roots, path, data, binary_newline) ==
    open_output(fs, roots, path, data, binary_newline)

\* shutil.copy2: into the directory when the destination is one; the source
\* must be a file.
copy2(fs, input_path, output_path) ==
    LET src == abspath(fs, input_path)
        dst == IF abspath(fs, output_path) \in fs.dirs
               THEN [output_path EXCEPT !.parts = Append(output_path.parts,
                                                          basename(input_path))]
               ELSE output_path
    IN  IF src \notin DOMAIN fs.files \/ src = abspath(fs, dst)
        THEN [fs |-> fs, raised |-> "DoxhooksFileSystemError", wrote |-> NoPath]
        ELSE write(fs, dst, fs.files[src])

\* fileio.copy.
copy(fs, roots, input_path, output_path) ==
    {IF checked # "none"
     THEN [fs |-> fs, raised |-> checked, wrote |-> NoPath]
     ELSE LET dirs == makedirs(fs, output_path)
          IN  IF dirs.raised # "none"
              THEN [fs |-> dirs.fs, raised |-> dirs.raised, wrote |-> NoPath]
              ELSE copy2(dirs.fs, input_path, output_path) :
         checked \in check_output_path(fs, roots, output_path)}

\* The file system of a platform before the first call of fileio: the current
\* directory is src, which has the file page, and ntpath has a second drive.
FileSystem(os, drive, drives) ==
    [os |-> os,
     cwd |-> AbsPath(drive, <<"src">>),
     dirs |-> {AbsPath(d, <<>>) : d \in drives} \cup {AbsPath(drive, <<"src">>)},
     files |-> DictSet(EmptyDict, AbsPath(drive, <<"src", "page">>), "source"),
     calls |-> 0]

FileSystems == {FileSystem("posix", "", {""}), FileSystem("nt", "C:", {"C:", "D:"})}

\* The drives of the paths that the user writes: the drive of the current
\* directory, and with ntpath another drive.
Drives(fs) == {d.drive : d \in {d \in fs.dirs : d.parts = <<>>}}

\* The paths of output roots, the paths of output files and the paths of the
\* input files of copy that the user passes.
RootPaths(fs) ==
    {Path(drive, TRUE, <<"out">>) : drive \in Drives(fs)}
        \cup {Path("", FALSE, <<"out">>)}

OutputPaths(fs) ==
    {Path(drive, TRUE, <<"out", "page">>) : drive \in Drives(fs)}
        \cup {Path(fs.cwd.drive, TRUE, parts) :
                  parts \in {<<"out", "new", "page">>, <<"out", "..", "src", "page">>,
                             <<"out", "..cache", "page">>, <<"out">>,
                             <<"src", "page">>, <<"out", "page", "page">>}}
        \cup {Path("", FALSE, <<"out", "page">>)}

InputPaths(fs) ==
    {Path(fs.cwd.drive, TRUE, <<"src", "page">>), Path("", FALSE, <<"missing">>)}

\* The last step of the user of fileio: the operation, the path of the output
\* (the root paths for add_output_roots) and the file that was made or
\* overwritten.
FileCall(operation, path, wrote) == [op |-> operation, path |-> path, wrote |-> wrote]

InitFileio ==
    /\ heap = EmptyDatabase.heap
    /\ features_products = EmptyDatabase.fp
    /\ products_features = EmptyDatabase.pf
    /\ held = NotHeld
    /\ raised = "none"
    /\ call = FileCall("init", <<>>, NoPath)
    /\ last = [p \in Products |-> NeverUpdated]
    /\ age = 0
    /\ preprocessor = NoPreprocessor
    /\ urls = EmptyDict
    /\ output_roots = {}
    /\ filesystem \in FileSystems

\* The file system and the registry after one of at most MaxFileCalls calls,
\* and nothing else changes.
FileioBecomes(roots, out, operation, path) ==
    /\ filesystem.calls < MaxFileCalls
    /\ output_roots' = roots
    /\ filesystem' = [out.fs EXCEPT !.calls = filesystem.calls + 1]
    /\ raised' = out.raised
    /\ call' = FileCall(operation, path, out.wrote)
    /\ UNCHANGED <<heap, features_products, products_features, held, last, age,
                   preprocessor, urls>>

AddOutputRoots(root_paths) ==
    FileioBecomes(add_output_roots(filesystem, output_roots, root_paths),
                  [fs |-> filesystem, raised |-> "none", wrote |-> NoPath],
                  "add_output_roots", root_paths)

FileioSave(path, binary_newline) ==
    \E out \in fileio_save(filesystem, output_roots, path, "data", binary_newline) :
        FileioBecomes(output_roots, out, "save", path)

OpenOutput(path, binary_newline) ==
    \E out \in open_output(filesystem, output_roots, path, "", binary_newline) :
        FileioBecomes(output_roots, out, "open_output", path)

Copy(input_path, output_path) ==
    \E out \in copy(filesystem, output_roots, input_path, output_path) :
        FileioBecomes(output_roots, out, "copy", output_path)

NextFileio ==
    \/ \E root_path \in RootPaths(filesystem) :
           \/ AddOutputRoots(<<root_path>>)
           \/ \E another \in RootPaths(filesystem) : AddOutputRoots(<<root_path, another>>)
    \/ \E path \in OutputPaths(filesystem), binary_newline \in BOOLEAN :
           FileioSave(path, binary_newline)
    \/ \E path \in OutputPaths(filesystem), binary_newline \in BOOLEAN :
           OpenOutput(path, binary_newline)
    \/ \E input_path \in InputPaths(filesystem), output_path \in OutputPaths(filesystem) :
           Copy(input_path, output_path)

SpecFileio == InitFileio /\ [][NextFileio]_vars

----------------------------------------------------------------------------
(* The resources that depend on an input file *)

\* The resource configurations of an environment: a dict, whose keys are
\* strs here and are iterated in any order, or a list, whose subscripts are
\* the ints from 0 (product1 stands for 0, product2 for 1, ...).  The
\* configurations need not have every product of the database.
Configurations ==
    UNION {{[kind |-> "dict", ids |-> order] : order \in Orders(S)} :
               S \in SUBSET Products}
        \cup {[kind |-> "list", ids |-> [i \in 1..n |-> ProductNames[i]]] :
                 n \in 0..NumProducts}

\* ResourceEnvironment._resource_ids without reverse_order.
resource_ids_Forward(configs, reverse_order) == configs.ids

\* ResourceEnvironment._resource_ids.
resource_ids(configs, reverse_order) ==
    IF reverse_order
    THEN [i \in 1..Len(configs.ids) |-> configs.ids[Len(configs.ids) + 1 - i]]
    ELSE configs.ids

\* os.path.normpath of the components of a relative path: a "." is dropped and
\* a ".." takes the component before it away, unless there is none or it is a
\* ".." too; nothing left is ".".
RECURSIVE normpath_relative_from(_, _, _)
normpath_relative_from(done, parts, i) ==
    IF i > Len(parts) THEN IF done = <<>> THEN <<".">> ELSE done
    ELSE IF parts[i] = "."
    THEN normpath_relative_from(done, parts, i + 1)
    ELSE IF parts[i] = pardir /\ done # <<>> /\ done[Len(done)] # pardir
    THEN normpath_relative_from(SubSeq(done, 1, Len(done) - 1), parts, i + 1)
    ELSE normpath_relative_from(Append(done, parts[i]), parts, i + 1)

normpath_relative(parts) == normpath_relative_from(<<>>, parts, 1)

\* The key of the database that a normalised path is: the name of a file in
\* the current directory, and no key of the database for any other path.
PathKey(parts) == IF Len(parts) = 1 THEN parts[1] ELSE NoKey

\* The loop over update_ids: self.update(resource_id) for each identity until
\* one raises.  The update of the resource `fails` raises, and every resource
\* that is updated has opened the input paths elems.
RECURSIVE update_each(_, _, _, _, _)
update_each(st, update_ids, i, fails, elems) ==
    IF i > Len(update_ids)
    THEN {[st |-> st, raised |-> "none", updates |-> <<>>]}
    ELSE LET arg == NewSet(st.heap, elems)
             st1 == State(arg.heap, st.fp, st.pf)
             outcome == IF update_ids[i] = fails THEN "write" ELSE "return"
         IN  UNION {IF out.raised # "none"
                    THEN {[st |-> out.st, raised |-> out.raised,
                           updates |-> <<update_ids[i]>>]}
                    ELSE {[rest EXCEPT !.updates = <<update_ids[i]>> \o rest.updates] :
                             rest \in update_each(out.st, update_ids, i + 1, fails, elems)} :
                        out \in update(st1, update_ids[i], outcome, SetArg(arg.ref))}

\* ResourceEnvironment.update_dependents(input_path): the states and
\* exceptions that the call can end with, and the resources in the order in
\* which it called self.update for them.  ", ".join(dependent_ids) raises
\* TypeError for an identity that is no str.
update_dependents(st, configs, reverse_order, input_path, fails, elems) ==
    LET path == PathKey(normpath_relative(input_path))
        got == retrieve_products(st, path)
        dependent_ids == got.heap[got.ref]
        listed(id_) == id_ \in dependent_ids
        update_ids == SelectSeq(resource_ids(configs, reverse_order), listed)
        removed == [r \in DOMAIN got.heap |->
                       IF r = got.ref
                       THEN got.heap[r] \ {update_ids[i] : i \in 1..Len(update_ids)}
                       ELSE got.heap[r]]
    IN  IF dependent_ids = {}
        THEN {[st |-> State(got.heap, st.fp, st.pf), raised |-> "none", updates |-> <<>>]}
        ELSE IF removed[got.ref] # {}
        THEN {[st |-> State(removed, st.fp, st.pf),
               raised |-> IF configs.kind = "list"
                          THEN "TypeError" ELSE "DoxhooksLookupError",
               updates |-> <<>>]}
        ELSE update_each(State(removed, st.fp, st.pf), update_ids, 1, fails, elems)

\* The input paths that the user passes, as their components.
DependentsPaths ==
    {<<FeatureNames[1]>>, <<".", FeatureNames[1]>>, <<"input", "..", FeatureNames[2]>>,
     <<"..", FeatureNames[1]>>, <<FeatureNames[NumFeatures + 1]>>}

\* The last step was update_dependents(input_path) of an environment with
\* these configurations.
DependentsUpdated(configs, reverse_order, input_path, fails, elems, updates) ==
    [op |-> "update_dependents", key |-> PathKey(normpath_relative(input_path)),
     repeat |-> FALSE, lost |-> FALSE, file |-> NoFile,
     configs |-> configs, reverse_order |-> reverse_order, input_path |-> input_path,
     fails |-> fails, paths |-> elems, updates |-> updates]

\* environment.update_dependents(input_path), the last call of the user.
UpdateDependents(configs, reverse_order, input_path, fails, elems) ==
    /\ call.op # "update_dependents"
    /\ age' = age
    /\ \E out \in update_dependents(Current, configs, reverse_order, input_path,
                                    fails, elems) :
           /\ Becomes(out.st, NotHeld, out.raised,
                      DependentsUpdated(configs, reverse_order, input_path, fails,
                                        elems, out.updates))
           /\ last' = [p \in Products |->
                          IF /\ \E i \in 1..Len(out.updates) : out.updates[i] = p
                             /\ p # fails
                          THEN elems ELSE last[p]]

NextDependents ==
    \/ call.op # "update_dependents" /\ NextEnvironment
    \/ \E configs \in Configurations, reverse_order \in BOOLEAN,
          input_path \in DependentsPaths, fails \in Products \cup {NoKey},
          elems \in SUBSET Features :
           UpdateDependents(configs, reverse_order, input_path, fails, elems)

SpecDependents == Init /\ [][NextDependents]_vars

----------------------------------------------------------------------------
(* What the database records *)

\* The two maps by value: each key with the elements of its set.
Contents(st) ==
    [fp |-> [f \in DOMAIN st.fp |-> st.heap[st.fp[f]]],
     pf |-> [p \in DOMAIN st.pf |-> st.heap[st.pf[p]]]]

DatabaseContents == Contents(Current)

\* The elements of the set that retrieve_products(feature) returns now.
Retrieved(feature) ==
    LET got == retrieve_products(Current, feature) IN got.heap[got.ref]

\* The references that the two dictionaries hold.
DatabaseRefs ==
    {features_products[f] : f \in DOMAIN features_products}
        \cup {products_features[p] : p \in DOMAIN products_features}

----------------------------------------------------------------------------
(* Properties of a database that starts empty and is updated with any      *)
(* iterable of features: a set, a list or a one-shot iterator              *)
(* (SpecIterable)                                                          *)

\* C1: the two maps are inverses of each other: a feature is in the recorded
\* features of a product if and only if the product is in the recorded
\* products of the feature.
C1_MapsAreInverses ==
    \A p \in Products, f \in Features :
        f \in Recorded(heap, products_features, p)
            <=> p \in Recorded(heap, features_products, f)

\* C2: retrieve_products(f) has the product p if and only if f was among the
\* features of the last update_dependencies call for p; a product that was
\* never updated, or was last updated with no features, is in no result.
C2_RetrievedIffLastPassed ==
    \A p \in Products, f \in Features : p \in Retrieved(f) <=> f \in last[p]

\* C3: no key of either map has the empty set as its value.
C3_NoEmptySetIsRecorded ==
    /\ \A p \in DOMAIN products_features : heap[products_features[p]] # {}
    /\ \A f \in DOMAIN features_products : heap[features_products[f]] # {}

\* The contents of the database after update_dependencies(product, features)
\* from the current state with a new set object of the given elements.
AfterUpdateWithSet(product, elems) ==
    LET arg == NewSet(heap, elems)
        st == State(arg.heap, features_products, products_features)
    IN  {Contents(out.st) : out \in update_dependencies(st, product, SetArg(arg.ref))}

\* C5: update_dependencies with a set, a list or a one-shot iterator of
\* features, empty or not, for a new product or for a product that has
\* recorded features, returns and leaves the database as the call with the set
\* of these features leaves it.
C5_AnyIterableAsItsSet ==
    [][call'.op = "update_dependencies" =>
          /\ raised' = "none"
          /\ DatabaseContents' \in AfterUpdateWithSet(call'.key, last'[call'.key])]_vars

----------------------------------------------------------------------------
(* Properties of a database that starts empty and is updated with sets of  *)
(* features (Spec)                                                         *)

\* C4: no update_dependencies call with a set of features raises the
\* RuntimeError of an inconsistent database.
C4_NeverInconsistent == raised # "RuntimeError"

\* An update of a product to no features that repeats such an update has
\* returned, while another product has features.
C4_Witness ==
    /\ call = Called("update_dependencies", call.key, TRUE, FALSE)
    /\ call.key \in Products
    /\ last[call.key] = {}
    /\ \E q \in Products : last[q] # {} /\ last[q] # NeverUpdated
    /\ raised = "none"

----------------------------------------------------------------------------
(* Properties of the copies that the database makes (Spec)                 *)

\* C6: retrieve_products returns a new set object with the recorded products
\* of the feature (none for an unknown feature) and changes nothing in the
\* database; when the caller adds or removes an element in the returned set,
\* the maps and the result of every retrieve_products call stay as they were.
C6_RetrievedSetIsACopy ==
    [][/\ call'.op = "retrieve_products" =>
              /\ held'.ref \notin DatabaseRefs'
              /\ heap'[held'.ref] = Recorded(heap, features_products, call'.key)
              /\ DatabaseContents' = DatabaseContents
       /\ call'.op = "mutate" /\ held.kind = "ret" =>
              /\ DatabaseContents' = DatabaseContents
              /\ \A f \in Features : Retrieved(f)' = Retrieved(f)]_vars

\* The caller has changed a set that retrieve_products returned: it is now
\* different from every recorded set of products, and a feature is recorded.
C6_Witness ==
    /\ call.op = "mutate" /\ held.kind = "ret"
    /\ DOMAIN features_products # {}
    /\ \A f \in Features : heap[held.ref] # Recorded(heap, features_products, f)

\* C7: update_dependencies records a set object of its own: when the caller
\* adds or removes an element in the set that it passed, the maps stay as they
\* were, and every later update_dependencies call returns without an error and
\* records the features that it was passed.
C7_StoredFeaturesAreACopy ==
    [][/\ call'.op = "mutate" /\ held.kind = "arg" =>
              DatabaseContents' = DatabaseContents
       /\ call'.op = "update_dependencies" =>
              /\ raised' = "none"
              /\ held'.ref \notin DatabaseRefs'
              /\ Recorded(heap', products_features', call'.key) = last'[call'.key]]_vars

\* The caller has changed the set that it passed to update_dependencies: it is
\* now different from the recorded features of every product, and a product has
\* recorded features.
C7_Witness ==
    /\ call.op = "mutate" /\ held.kind = "arg"
    /\ DOMAIN products_features # {}
    /\ \A p \in Products : heap[held.ref] # Recorded(heap, products_features, p)

----------------------------------------------------------------------------
(* Properties of load (SpecLoad)                                           *)

\* The two maps that the text of a database file states, by value.
FileMaps(file) ==
    LET dict(key) == file.data.items[key].items
    IN  [fp |-> [f \in DOMAIN dict("features_products") |->
                    dict("features_products")[f].elems],
         pf |-> [p \in DOMAIN dict("products_features") |->
                    dict("products_features")[p].elems]]

\* C8: after a load that returned, the database has the two maps of the file
\* and nothing of what it had before: retrieve_products(f) is the set that the
\* file has for f in features_products, and is empty for a feature that the
\* file does not have there.
C8_LoadReplacesTheDatabase ==
    call.op = "load" /\ raised = "none" =>
        /\ DatabaseContents = FileMaps(call.file)
        /\ \A f \in Features :
               Retrieved(f) = IF f \in DOMAIN FileMaps(call.file).fp
                              THEN FileMaps(call.file).fp[f] ELSE {}

\* A load has returned that read a file with records, and the database had a
\* product or a feature before it that the file does not have.
C8_Witness ==
    /\ call.op = "load" /\ raised = "none" /\ call.lost
    /\ DOMAIN features_products # {}
    /\ DOMAIN products_features # {}

\* The value is a dict.
IsDict(data) == data.type = "dict"

\* The value is no database: it is no dict, it lacks one of the two keys, or
\* its value for one of them is no dict or is a dict with a value that is no set.
NotADatabase(data) ==
    \/ ~IsDict(data)
    \/ \E key \in {"features_products", "products_features"} :
           \/ key \notin DOMAIN data.items
           \/ ~IsDict(data.items[key])
           \/ \E k \in DOMAIN data.items[key].items :
                  data.items[key].items[k].type # "set"

\* C9: load raises DoxhooksDataFileError when the value that it read is no
\* database.
C9_BadDatabaseIsADataFileError ==
    call.op = "load" /\ call.file.kind = "literal" /\ NotADatabase(call.file.data) =>
        raised = "DoxhooksDataFileError"

\* A load has raised DoxhooksDataFileError for a dict that has a dict for each
\* of the two keys, one with a value that is no set.
C9_Witness ==
    /\ call.op = "load" /\ call.file.kind = "literal"
    /\ raised = "DoxhooksDataFileError"
    /\ IsDict(call.file.data)
    /\ \A key \in {"features_products", "products_features"} :
           key \in DOMAIN call.file.data.items /\ IsDict(call.file.data.items[key])
    /\ NotADatabase(call.file.data)

\* C10: when the database records a feature for a product and does not record
\* the product for the feature, an update_dependencies call that removes the
\* feature from the product raises RuntimeError.
C10_MissingReverseRecordIsARuntimeError ==
    [][/\ call'.op = "update_dependencies"
       /\ \E f \in Recorded(heap, products_features, call'.key) \ last'[call'.key] :
              call'.key \notin Recorded(heap, features_products, f)
       => raised' = "RuntimeError"]_vars

\* After a load, an update_dependencies call that removed a feature from a
\* product has raised RuntimeError, and the feature has no products: it has no
\* entry, or it has the empty set.
C10_Witness ==
    /\ call.op = "update_dependencies" /\ call.lost
    /\ age > 0
    /\ raised = "RuntimeError"
    /\ \E f \in Features : Recorded(heap, features_products, f) = {}

----------------------------------------------------------------------------
(* Properties of save and of save_literals (SpecSaveIterable, SpecDataio)  *)

\* C11: from every state of a database that was updated from empty, save and
\* then load into a new database return without an error, and the new database
\* retrieves for every feature the products that the saved one retrieved.
C11_SaveThenLoadRestores ==
    [][call'.op = "save_load" =>
          /\ raised' = "none"
          /\ \A f \in Features : Retrieved(f)' = Retrieved(f)]_vars

\* The data has no text that evaluates to it: it is the empty set or an object
\* that is no literal, or a dict with such a value.
RECURSIVE NotRestorable(_)
NotRestorable(data) ==
    \/ data.type = "set" /\ data.elems = {}
    \/ data.type \in NonLiteralTypes
    \/ data.type = "dict" /\ \E k \in DOMAIN data.items : NotRestorable(data.items[k])

\* C12: when save_literals has written a file, load_literals of the file
\* returns the data that was saved; for data without a restorable text it
\* raises DoxhooksDataError and writes no file.
C12_SavedDataIsRestorable ==
    call.op = "save_literals" =>
        /\ call.file # NoFile =>
               load_literals(call.file) = [raised |-> "none", data |-> call.data]
        /\ NotRestorable(call.data) =>
               raised = "DoxhooksDataError" /\ call.file = NoFile

\* save_literals has raised DoxhooksDataError for a dict of dicts in which a
\* value is the empty set, and has written no file.
C12_Witness ==
    /\ call.op = "save_literals"
    /\ raised = "DoxhooksDataError"
    /\ call.file = NoFile
    /\ call.data.type = "dict"
    /\ \E k \in DOMAIN call.data.items :
           /\ call.data.items[k].type = "dict"
           /\ \E j \in DOMAIN call.data.items[k].items :
                  call.data.items[k].items[j] = SetLiteral({})

----------------------------------------------------------------------------
(* Looking up the value of a token: SpecLookup *)

\* The object has a value for the name: an attribute, an attribute with a
\* trailing underscore, or an item.
Has(object_, name) ==
    \/ getattr(object_, name).raised = "none"
    \/ getattr(object_, Append(name, "_")).raised = "none"
    \/ getitem(object_, name).raised = "none"

Private(identifiers) ==
    \E i \in 1..Len(identifiers) : startswith_underscore(identifiers[i])

\* C17: resolving an identifier any of whose segments starts with an
\* underscore always raises DoxhooksForbiddenLookupError, whether or not the
\* value has an attribute or item of that name, and resolving a segment that
\* is no attribute, no attribute with a trailing underscore and no item raises
\* DoxhooksLookupError.
C17_PrivateSegmentIsAlwaysForbidden ==
    call.op = "get_token_value" =>
        LET identifiers == split(call.token)
        IN  /\ Private(identifiers) => raised = "DoxhooksForbiddenLookupError"
            /\ \A k \in 1..Len(identifiers) :
                   LET before == get_token_value_from(
                                     call.context, SubSeq(identifiers, 1, k - 1), 1)
                   IN  /\ before.raised = NoException
                       /\ ~startswith_underscore(identifiers[k])
                       /\ ~Has(before.value, identifiers[k])
                       => raised = "DoxhooksLookupError"

\* C17, amended: the segments are resolved from left to right, and the first
\* segment that does not resolve decides the exception.  A segment that starts
\* with an underscore never resolves and raises DoxhooksForbiddenLookupError,
\* whether or not the value has an attribute or item of that name; a segment
\* that is no attribute, no attribute with a trailing underscore and no item
\* raises DoxhooksLookupError.  So an identifier with a segment that starts
\* with an underscore never yields a value, and it raises
\* DoxhooksForbiddenLookupError when the segments before that segment resolve.
C17_FirstUnresolvedSegmentDecides ==
    call.op = "get_token_value" =>
        LET identifiers == split(call.token)
        IN  /\ Private(identifiers) =>
                   raised \in {"DoxhooksForbiddenLookupError", "DoxhooksLookupError"}
            /\ \A k \in 1..Len(identifiers) :
                   LET before == get_token_value_from(
                                     call.context, SubSeq(identifiers, 1, k - 1), 1)
                   IN  before.raised = NoException =>
                           /\ startswith_underscore(identifiers[k]) =>
                                  /\ raised = "DoxhooksForbiddenLookupError"
                                  /\ call.about = identifiers[k]
                           /\ /\ ~startswith_underscore(identifiers[k])
                              /\ ~Has(before.value, identifiers[k])
                              => /\ raised = "DoxhooksLookupError"
                                 /\ call.about = identifiers[k]

\* The second segment of the token starts with an underscore and is an item
\* of the dict that the first segment resolves to, and the lookup has raised
\* DoxhooksForbiddenLookupError.
C17_Witness ==
    /\ call.op = "get_token_value"
    /\ Len(split(call.token)) = 2
    /\ startswith_underscore(split(call.token)[2])
    /\ LET first == findvalue(call.context, split(call.token)[1])
       IN  /\ first.raised = NoException
           /\ getitem(first.value, split(call.token)[2]).raised = "none"
    /\ raised = "DoxhooksForbiddenLookupError"

----------------------------------------------------------------------------
(* The resource environment: SpecEnvironment *)

\* C20: ResourceEnvironment.update records the dependencies of a resource
\* only after its write step has succeeded: when making the resource or
\* resource.update() raises, the call raises, the database is as it was before
\* the call, and the records of the resources updated before are untouched.
\* When update returns the input paths, they are recorded for the resource.
C20_RecordsOnlyAfterTheWrite ==
    [][call'.op = "update" =>
           /\ call'.outcome # "return" =>
                  /\ raised' = IF call'.key \in ResourceConfigs
                               THEN Outcomes[call'.outcome]
                               ELSE "DoxhooksLookupError"
                  /\ DatabaseContents' = DatabaseContents
                  /\ \A f \in Features : Retrieved(f)' = Retrieved(f)
           /\ call'.outcome = "return" /\ call'.key \in ResourceConfigs =>
                  /\ raised' = "none"
                  /\ Recorded(heap', products_features', call'.key) = call'.paths
                  /\ \A p \in Products \ {call'.key} :
                         Recorded(heap', products_features', p)
                             = Recorded(heap, products_features, p)]_vars

\* The resource failed to write its output after it had opened an input path
\* that the database does not record for it, while the database has a record
\* of another resource.
C20_Witness ==
    /\ call.op = "update"
    /\ call.outcome = "write"
    /\ raised = "DoxhooksFileError"
    /\ call.paths \ Recorded(heap, products_features, call.key) # {}
    /\ \E p \in Products \ {call.key} : Recorded(heap, products_features, p) # {}

----------------------------------------------------------------------------
(* The preprocessor: SpecPreprocessor *)

\* The number of times that the input file domain was asked to open the file.
Opens(pp, name) == Cardinality({i \in 1..Len(pp.opened) : pp.opened[i] = name})

\* The filename is neither None nor the empty str.
Named(filename) == filename.type = "str" /\ filename.text # <<>>

\* C13: insert_file(name, idempotent=True) and start() open the file only
\* when the name is not in input_files, so that repeating them after a first
\* insertion does nothing: no open, no output.  insert_file(name,
\* idempotent=False) opens the file on every call.
C13_IdempotentInsertionOpensOnce ==
    [][call'.op \in {"insert_file", "start"} /\ Named(call'.filename) =>
           IF call'.idempotent /\ call'.repeat
           THEN preprocessor' = Calling
           ELSE /\ Len(preprocessor'.opened) > Len(preprocessor.opened)
                /\ preprocessor'.opened[Len(preprocessor.opened) + 1]
                       = call'.filename.text]_vars

\* start() was called for the root input file again and has returned; the
\* file has been opened once, and the first call has written output.
C13_Witness ==
    /\ call.op = "start"
    /\ call.repeat
    /\ raised = "none"
    /\ Opens(preprocessor, root_input_filename.text) = 1
    /\ preprocessor.output # <<>>

\* C14: input_files is exactly the set of the filenames that the
\* preprocessor has opened through the input file domain: a filename is in
\* input_files if and only if the file has been opened and preprocessed, a
\* filename that is None or "" is never opened nor recorded, and the set never
\* loses an element.
C14_InputFilesAreTheOpenedFiles ==
    /\ [](/\ preprocessor.input_files
                  = {name \in DOMAIN InputFiles : Opens(preprocessor, name) > 0}
           /\ <<>> \notin preprocessor.input_files
           /\ Opens(preprocessor, <<>>) = 0)
    /\ [][preprocessor.input_files \subseteq preprocessor'.input_files]_vars

\* The line is plain text: no directive, and no node in it.
PlainText(line) ==
    /\ ~match_directive(line).matched
    /\ \A i \in 1..Len(line) : match_node(line, i) = 0

\* C15: the indentation that a directive sets does not outlive the insertion
\* that the directive triggers: a new insert_lines call of the user of the
\* preprocessor writes its lines of plain text as they are, with no
\* indentation carried over from an earlier call.
C15_IndentationDoesNotLeak ==
    [][/\ call'.op = "insert_lines"
       /\ \A i \in 1..Len(call'.lines) : PlainText(call'.lines[i])
       => preprocessor'.output = preprocessor.output \o call'.lines]_vars

\* The text with each of its nodes, from position i on, replaced by the text
\* that the context gives for its identifier, as that text is; a node that
\* has no text in the context stays.
RECURSIVE Substituted(_, _, _)
Substituted(context, text, i) ==
    IF i > Len(text)
    THEN <<>>
    ELSE LET end == match_node(text, i)
             value == get(context, SubSeq(text, i + 2, end - 2))
         IN  IF end = 0
             THEN <<text[i]>> \o Substituted(context, text, i + 1)
             ELSE IF value.raised # NoException
             THEN SubSeq(text, i, end) \o Substituted(context, text, end + 1)
             ELSE value.text \o Substituted(context, text, end + 1)

\* The text after n rounds of replacing its nodes.
RECURSIVE SubstitutedTimes(_, _, _)
SubstitutedTimes(context, text, n) ==
    IF n = 0
    THEN text
    ELSE SubstitutedTimes(context, Substituted(context, text, 1), n - 1)

\* The text from position i on has a "#" that is no part of a node.
RECURSIVE Stray(_, _)
Stray(text, i) ==
    IF i > Len(text)
    THEN FALSE
    ELSE IF match_node(text, i) # 0
    THEN Stray(text, match_node(text, i) + 1)
    ELSE text[i] = "#" \/ Stray(text, i + 1)

\* Neither the line nor the text of a variable of the context has a "#" that
\* is no part of a node.
Tidy(context, line) ==
    /\ ~Stray(line, 1)
    /\ \A name \in DOMAIN context.items : ~Stray(context.items[name].text, 1)

\* The text has a node whose identifier has a text in the context.
HasNode(context, text) ==
    \E i \in 1..Len(text) :
        /\ match_node(text, i) # 0
        /\ get(context, SubSeq(text, i + 2, match_node(text, i) - 2)).raised
               = NoException

\* insert_lines was called with one line that is no directive, and has
\* returned.
LineEvaluated ==
    /\ call'.op = "insert_lines"
    /\ Len(call'.lines) = 1
    /\ ~match_directive(call'.lines[1]).matched
    /\ raised' = "none"

\* C16: node expansion is recursive in the same context: the output of a
\* line is the line with every node replaced by the text of its variable, in
\* which every node has been replaced in turn, to any depth, so that the
\* written line has no node whose identifier resolves.
C16_NoNodeIsLeftInTheOutput ==
    [][LineEvaluated =>
           /\ preprocessor'.output
                  = Append(preprocessor.output,
                           preprocessor.indentation
                               \o SubstitutedTimes(preprocessor.context,
                                                   call'.lines[1], RecursionLimit))
           /\ ~HasNode(preprocessor.context,
                       preprocessor'.output[Len(preprocessor'.output)])]_vars

\* C16, amended: node expansion is recursive in the same context.  When "#"
\* occurs in the line and in the texts of the variables only in the
\* delimiters of nodes, the output of the line is the line with every node
\* replaced by the text of its variable, in which every node has been
\* replaced in turn, to any depth, and the written line has no node.  A node
\* that forms where a replacement text meets the text next to it is written
\* as it is.
C16_NodesAreExpandedRecursively ==
    [][LineEvaluated /\ Tidy(preprocessor.context, call'.lines[1]) =>
           /\ preprocessor'.output
                  = Append(preprocessor.output,
                           preprocessor.indentation
                               \o SubstitutedTimes(preprocessor.context,
                                                   call'.lines[1], RecursionLimit))
           /\ ~HasNode(preprocessor.context,
                       preprocessor'.output[Len(preprocessor'.output)])]_vars

\* The line "##parent##" was inserted in a context with child = "X" and
\* parent = "Y ##child##", and "Y X" was written.
C16_Witness ==
    /\ call.op = "insert_lines"
    /\ call.lines = <<Line(Node(<<"parent">>))>>
    /\ raised = "none"
    /\ preprocessor.context.items[<<"parent">>] = Str(<<"Y", " ">> \o Node(<<"child">>))
    /\ preprocessor.context.items[<<"child">>] = Str(<<"X">>)
    /\ preprocessor.output # <<>>
    /\ preprocessor.output[Len(preprocessor.output)]
           = preprocessor.indentation \o <<"Y", " ", "X", "\n">>

\* The variables of the context whose names start with an underscore.
PrivateVariables(context) ==
    [name \in {n \in DOMAIN context.items : startswith_underscore(n)} |->
         context.items[name]]

\* C18: the attributes of the context whose names start with an underscore
\* are out of the reach of the mini-language: no directive and no node of an
\* input, the set keyword included, reads, creates or overwrites one.
C18_PrivateAttributesAreOutOfReach ==
    [][/\ PrivateVariables(preprocessor'.context) = PrivateVariables(preprocessor.context)
       /\ /\ call'.op = "insert_lines"
          /\ call'.lines = <<Line(Node(<<"_", "secret">>))>>
          => /\ raised' = "DoxhooksForbiddenLookupError"
             /\ preprocessor'.output = preprocessor.output]_vars

\* The directive of the line that insert_lines was called with, its tokens,
\* the value of its keyword in the context, and the preprocessor when the
\* directive is interpreted.
DirectiveOf(operation) == match_directive(operation.lines[1])

TokensOf(operation) == shlex_split(DirectiveOf(operation).block)

KeywordOf(operation) == findvalue(preprocessor.context, DirectiveOf(operation).keyword)

Interpreting(operation) ==
    [Calling EXCEPT
         !.indentation = preprocessor.indentation \o DirectiveOf(operation).indentation]

\* insert_lines was called with one line, a directive whose keyword has a
\* value in the context.
DirectiveInterpreted ==
    /\ call'.op = "insert_lines"
    /\ Len(call'.lines) = 1
    /\ DirectiveOf(call').matched
    /\ KeywordOf(call').raised = NoException

\* C19: interpret raises DoxhooksTypeError when the keyword is not callable
\* and the DoxhooksDataError of bad syntax when the number of tokens does not
\* fit the parameters of the keyword.  Every other failure of the keyword
\* comes out as it was raised: the DoxhooksDataError of the error keyword with
\* its message, and what a keyword nested through `if` raises, which is what
\* the nested directive raises on its own.
C19_InterpretRaisesOrPropagates ==
    [][DirectiveInterpreted =>
           LET keyword == KeywordOf(call').value
               tokens == TokensOf(call')
               condition == get_token_value(preprocessor.context, tokens[1])
           IN  /\ keyword.type # "method" =>
                      preprocessor'.raised
                          = Exception("DoxhooksTypeError", DirectiveOf(call').keyword)
               /\ keyword.type = "method" /\ ~Fits(keyword.text, tokens) =>
                      preprocessor'.raised = BadSyntax
               /\ keyword = Method(<<"error">>) /\ Len(tokens) = 1 =>
                      preprocessor'.raised = Exception("DoxhooksDataError", tokens[1])
               /\ /\ keyword = Method(<<"if", "_">>)
                  /\ Len(tokens) >= 2
                  /\ condition = [raised |-> NoException, value |-> Bool(TRUE)]
                  => preprocessor'
                         = interpret(Interpreting(call'), tokens[2],
                                     SubSeq(tokens, 3, Len(tokens)), RecursionLimit - 1)
               /\ keyword.type = "method" /\ Fits(keyword.text, tokens) =>
                      preprocessor'.raised
                          = keyword_call(Interpreting(call'), keyword.text, tokens,
                                         RecursionLimit - 1).raised]_vars

\* The directive "##if flag error boom" was interpreted with a true flag, and
\* the DoxhooksDataError of the nested error keyword has come out with its
\* message.
C19_Witness ==
    /\ call.op = "insert_lines"
    /\ call.lines = <<Directive(<<>>, <<"if">>,
                                <<(<<"flag">>), (<<"error">>), (<<"boom">>)>>)>>
    /\ preprocessor.context.items[<<"flag">>] = Bool(TRUE)
    /\ preprocessor.raised = Exception("DoxhooksDataError", <<"boom">>)
    /\ raised = "DoxhooksDataError"

----------------------------------------------------------------------------
(* A load that fails, and an update that fails (SpecLoad) *)

\* C29: a load that raises, for a file that cannot be read, that is no
\* literal data, that lacks a key or that has a value that is no set, leaves
\* both maps of the database as they were before the call.
C29_FailedLoadChangesNothing ==
    [][call'.op = "load" /\ raised' # "none" =>
           /\ DatabaseContents' = DatabaseContents
           /\ \A f \in Features : Retrieved(f)' = Retrieved(f)]_vars

\* A load has raised DoxhooksDataFileError for a file whose features_products
\* is a dict of sets and whose products_features has a value that is no set,
\* and the database has the records that it had been given.
C29_Witness ==
    /\ call.op = "load" /\ call.file.kind = "literal"
    /\ raised = "DoxhooksDataFileError"
    /\ IsDict(call.file.data)
    /\ \A key \in {"features_products", "products_features"} :
           key \in DOMAIN call.file.data.items /\ IsDict(call.file.data.items[key])
    /\ are_sets(call.file.data.items["features_products"]).all
    /\ DOMAIN call.file.data.items["features_products"].items # {}
    /\ ~are_sets(call.file.data.items["products_features"]).all
    /\ \E p \in Products : last[p] # NeverUpdated /\ last[p] # {}
    /\ DOMAIN products_features # {}

\* C30: update_dependencies is not atomic when it fails.  When the call
\* raises the RuntimeError of an inconsistent database, the product has its
\* new set of features (no entry when the set is empty), the product is
\* recorded for every feature that was added, and the removals made before the
\* one that failed stay applied: in some order of the removed features, the
\* product is gone from the features before the failing one and the features
\* from the failing one on are as they were.
C30_FailedUpdateIsNotAtomic ==
    [][call'.op = "update_dependencies" /\ raised' = "RuntimeError" =>
           LET product == call'.key
               previous == Recorded(heap, products_features, product)
               new == last'[product]
           IN  /\ Recorded(heap', products_features', product) = new
               /\ product \in DOMAIN products_features' <=> new # {}
               /\ \A f \in new \ previous :
                      product \in Recorded(heap', features_products', f)
               /\ \E order \in Orders(previous \ new) :
                      \E i \in 1..Len(order) :
                          /\ product \notin Recorded(heap, features_products, order[i])
                          /\ \A j \in 1..(i - 1) :
                                 /\ product \in Recorded(heap, features_products, order[j])
                                 /\ Recorded(heap', features_products', order[j])
                                        = Recorded(heap, features_products, order[j])
                                              \ {product}
                          /\ \A j \in i..Len(order) :
                                 Recorded(heap', features_products', order[j])
                                     = Recorded(heap, features_products, order[j])
               /\ \A p \in Products \ {product} :
                      Recorded(heap', products_features', p)
                          = Recorded(heap, products_features, p)]_vars

\* An update of a product has raised RuntimeError after it has lost a
\* feature; the product has the new features, which are not empty, and is
\* recorded for them.
C30_Witness ==
    /\ call.op = "update_dependencies" /\ call.lost
    /\ raised = "RuntimeError"
    /\ last[call.key] # {}
    /\ Recorded(heap, products_features, call.key) = last[call.key]
    /\ \A f \in last[call.key] : call.key \in Recorded(heap, features_products, f)

----------------------------------------------------------------------------
(* The URL mapping: SpecURLMapping *)

\* C21: once a resource identity is mapped to a URL, it stays mapped to that
\* URL.  An assignment of the URL that the identity has returns and changes
\* nothing, an assignment of another URL raises RuntimeError, every deletion
\* raises RuntimeError, an assignment to an identity without a URL maps it,
\* and an operation that raises leaves the mapping as it was.
C21_URLsAreWrittenOnce ==
    [][/\ \A resource_id \in DOMAIN urls :
              resource_id \in DOMAIN urls' /\ urls'[resource_id] = urls[resource_id]
       /\ call'.op = "setitem" /\ call'.key \in DOMAIN urls
              => /\ urls' = urls
                 /\ raised' = IF call'.url = urls[call'.key]
                              THEN "none" ELSE "RuntimeError"
       /\ call'.op = "setitem" /\ call'.key \notin DOMAIN urls
              => /\ raised' = "none"
                 /\ urls' = DictSet(urls, call'.key, call'.url)
       /\ call'.op = "delitem" => raised' = "RuntimeError"
       /\ raised' # "none" => urls' = urls]_vars

\* A resource with a URL has been assigned another URL, which raised
\* RuntimeError, next to another resource whose URL is None.
C21_Witness ==
    /\ call.op = "setitem" /\ raised = "RuntimeError"
    /\ Cardinality(DOMAIN urls) > 1
    /\ urls[call.key] # call.url
    /\ \E resource_id \in DOMAIN urls : urls[resource_id] = None

----------------------------------------------------------------------------
(* The output roots of fileio: SpecFileio *)

\* The path lies under a root: the root is on its drive, and the components
\* of the root are the first components of the path.
LiesUnder(path, root) ==
    /\ path.drive = root.drive
    /\ Len(root.parts) <= Len(path.parts)
    /\ SubSeq(path.parts, 1, Len(root.parts)) = root.parts

UnderARoot(path, roots) == \E root \in roots : LiesUnder(path, root)

\* C22: for any sequence of add_output_roots, save, open_output and copy, a
\* file is made or overwritten only at a path under a root that an earlier
\* add_output_roots registered; for an output path that is under no root the
\* operation raises DoxhooksOutputPathError and has made no directory and no
\* file; and the registry only grows.
C22_OutputOnlyUnderARegisteredRoot ==
    [][/\ output_roots \subseteq output_roots'
       /\ call'.op \in {"save", "open_output", "copy"}
              => /\ call'.wrote # NoPath => UnderARoot(call'.wrote, output_roots)
                 /\ \A file \in DOMAIN filesystem'.files :
                        \/ UnderARoot(file, output_roots)
                        \/ /\ file \in DOMAIN filesystem.files
                           /\ filesystem'.files[file] = filesystem.files[file]
                 /\ ~UnderARoot(abspath(filesystem, call'.path), output_roots)
                        => /\ raised' = "DoxhooksOutputPathError"
                           /\ filesystem'.dirs = filesystem.dirs
                           /\ filesystem'.files = filesystem.files]_vars

----------------------------------------------------------------------------
(* The resources that depend on an input file: SpecDependents *)

\* The resources that the database lists for the path of the last call, in
\* the order in which the environment iterates over its configurations.
ListedInOrder(listed, configs, reverse_order) ==
    LET ids == IF reverse_order
               THEN [i \in 1..Len(configs.ids) |-> configs.ids[Len(configs.ids) + 1 - i]]
               ELSE configs.ids
        Listed(id_) == id_ \in listed
    IN  SelectSeq(ids, Listed)

IsPrefix(s, t) == Len(s) <= Len(t) /\ s = SubSeq(t, 1, Len(s))

\* C23: update_dependents(path) that returns has updated exactly the
\* resources that the database listed for the normalised path, each once, in
\* the iteration order of the configurations, reversed with reverse_order; it
\* has updated nothing when the database listed nothing.  A call that raises
\* has updated the first of them in that order, up to the one whose update
\* raised.  The removals from the retrieved set change nothing in the
\* database: after the call each updated resource is listed for exactly the
\* input paths that its update returned, and every other resource is listed
\* as before.
C23_DependentsAreUpdatedInOrder ==
    [][call'.op = "update_dependents" =>
           LET listed == Recorded(heap, features_products, call'.key)
               expected == ListedInOrder(listed, call'.configs, call'.reverse_order)
               updated == {call'.updates[i] : i \in 1..Len(call'.updates)}
               returned == IF raised' = "none" THEN updated ELSE updated \ {call'.fails}
           IN  /\ raised' = "none" =>
                      /\ call'.updates = expected
                      /\ updated = listed
               /\ IsPrefix(call'.updates, expected)
               /\ listed = {} => raised' = "none" /\ call'.updates = <<>>
               /\ \A f \in Features :
                      /\ Recorded(heap', features_products', f) \ updated
                             = Recorded(heap, features_products, f) \ updated
                      /\ \A p \in returned :
                             p \in Recorded(heap', features_products', f)
                                 <=> f \in call'.paths
               /\ \A p \in Products \ returned :
                      Recorded(heap', products_features', p)
                          = Recorded(heap, products_features, p)]_vars

\* update_dependents of a path that is normalised has returned after it
\* updated every product in the reverse of the iteration order, and the
\* products do not depend on the path any more.
C23_Witness ==
    /\ call.op = "update_dependents" /\ raised = "none"
    /\ call.reverse_order
    /\ call.input_path # <<call.key>>
    /\ Len(call.updates) = NumProducts
    /\ call.updates[1] = call.configs.ids[NumProducts]
    /\ call.key \notin call.paths
    /\ Recorded(heap, features_products, call.key) = {}

\* C28: when the database lists for the path a resource that the
\* configurations do not have, update_dependents raises DoxhooksLookupError
\* and has updated no resource, and the database is unchanged.
C28_UnconfiguredDependentIsALookupError ==
    [][/\ call'.op = "update_dependents"
       /\ \E id_ \in Recorded(heap, features_products, call'.key) :
              \A i \in 1..Len(call'.configs.ids) : call'.configs.ids[i] # id_
       => /\ raised' = "DoxhooksLookupError"
          /\ call'.updates = <<>>
          /\ \A f \in Features : Recorded(heap', features_products', f)
                                     = Recorded(heap, features_products, f)
          /\ \A p \in Products : Recorded(heap', products_features', p)
                                     = Recorded(heap, products_features, p)]_vars

----------------------------------------------------------------------------
(* Nested insertions: SpecInsertions *)

\* The files and the lines whose directives are inserts of files that exist.
ChainFilenames == {Str(<<"outer">>), Str(<<"inner">>)}

ChainLines ==
    {<<Directive(<<" ">>, <<"insert">>, <<(<<"inner">>)>>), Line(<<"End">>)>>,
     <<Directive(<<>>, <<"insert">>, <<(<<"inner">>), (<<"part">>)>>)>>}

RECURSIVE ChainedLines(_, _, _)
RECURSIVE ChainedFiles(_, _, _)

\* The output lines that the lines stand for when the chain of directives
\* that led to them has the leading whitespace `chain`: a plain line is its
\* replacement after the chain, a bare "\n" is itself, an empty replacement is
\* nothing, and an insert directive stands for the lines of its files after
\* the chain and its own leading whitespace.
ChainedLines(context, lines, chain) ==
    IF lines = <<>>
    THEN <<>>
    ELSE LET directive == match_directive(Head(lines))
             text == eval_line(context, Head(lines), RecursionLimit).text
             here == IF directive.matched
                     THEN ChainedFiles(context, shlex_split(directive.block),
                                       chain \o directive.indentation)
                     ELSE IF text = <<>>
                     THEN <<>>
                     ELSE IF text = <<"\n">>
                     THEN <<text>>
                     ELSE <<chain \o text>>
         IN  here \o ChainedLines(context, Tail(lines), chain)

ChainedFiles(context, filenames, chain) ==
    IF filenames = <<>>
    THEN <<>>
    ELSE ChainedLines(context, InputFiles[Head(filenames)], chain)
             \o ChainedFiles(context, Tail(filenames), chain)

\* The lines of the last call: those of insert_lines, or those of the file.
CalledLines ==
    IF call'.op = "insert_lines" THEN call'.lines ELSE InputFiles[call'.filename.text]

\* C24: a call that inserts nested files writes each line that is no bare
\* "\n" after the leading whitespace of the directives on the chain that led
\* to it, outermost first, and after nothing else; a plain line after a
\* directive has the indentation of its own insert_lines call; a line that
\* is "\n" after the replacement of its nodes is written as it is and a line
\* that is "" then is not written.
C24_LinesAreIndentedByTheirChain ==
    [][(/\ \/ call'.op = "insert_lines" /\ call'.lines \in ChainLines
           \/ /\ call'.op = "insert_file" /\ call'.filename \in ChainFilenames
              /\ ~(call'.idempotent /\ call'.repeat)
        /\ raised' = "none")
       => preprocessor'.output =
              preprocessor.output \o ChainedLines(preprocessor.context, CalledLines, <<>>)]_vars

\* The number of traces that insert_lines wrote.
LineTraces(traces) ==
    Cardinality({n \in DOMAIN traces : "line" \in DOMAIN traces[n].location})

\* The last call ended with an exception that left a call of insert_lines.
FailedInInsertLines ==
    /\ call'.op \in {"insert_lines", "insert_file", "start"}
    /\ raised' # "none"
    /\ call'.frames > 0

\* Every trace of the last call was written for the exception that its
\* caller got.
TracedWhatIsRaised ==
    \A n \in DOMAIN call'.traces : call'.traces[n].exception = preprocessor'.raised

\* The preprocessor after insert_lines with the first n of the lines.
Processed(lines, n) == insert_lines(Tracing(Calling), SubSeq(lines, 1, n), RecursionLimit)

\* The first of the lines with which insert_lines fails.
FirstFailing(lines) ==
    CHOOSE n \in 1..Len(lines) :
        /\ Processed(lines, n).raised # NoException
        /\ \A m \in 0..(n - 1) : Processed(lines, m).raised = NoException

StartsWith(longer, shorter) ==
    /\ Len(shorter) <= Len(longer)
    /\ SubSeq(longer, 1, Len(shorter)) = shorter

\* The failed insert_lines call of the user left what its lines up to the
\* failing one leave: the output of the earlier lines is kept, no later line
\* is processed, and a failing line of text writes nothing.
StoppedAtTheFailingLine ==
    call'.op = "insert_lines"
        => LET n == FirstFailing(call'.lines)
               earlier == Processed(call'.lines, n - 1)
           IN  /\ preprocessor' = Untraced(Processed(call'.lines, n))
               /\ StartsWith(preprocessor'.output, earlier.output)
               /\ StartsWith(earlier.output, preprocessor.output)
               /\ ~match_directive(call'.lines[n]).matched
                      => preprocessor'.output = earlier.output
               /\ LineTraces(call'.traces) = call'.frames
                      => /\ call'.traces[Len(call'.traces)].location = LineNo(n)
                         /\ call'.traces[Len(call'.traces)].source = call'.lines[n]

\* C25 as it is written: when a line fails inside insert_lines, every level
\* of insert_lines that the exception leaves has written one error trace for
\* that exception, which the caller gets; no later line is processed, nothing
\* is written for the failing line, and the output of the earlier lines is
\* kept.
C25_EveryLevelTracesTheFailure ==
    [][FailedInInsertLines
           => /\ TracedWhatIsRaised
              /\ LineTraces(call'.traces) = call'.frames
              /\ StoppedAtTheFailingLine]_vars

\* The exception came from self._output.write, which is after the try
\* statement of insert_lines.
RaisedByTheWrite == preprocessor'.raised = UnicodeEncodeError

\* C25, amended: an exception of the interpretation of a directive or of the
\* replacement of the nodes is traced once by every insert_lines call that it
\* leaves; an exception of the write of the output line is not traced by the
\* call that wrote, and once by every call around it.  In both cases the
\* caller gets that exception, no later line is processed, nothing is written
\* for the failing line, and the output of the earlier lines is kept.
C25_FailureIsTracedInsideTheTry ==
    [][FailedInInsertLines
           => /\ TracedWhatIsRaised
              /\ LineTraces(call'.traces) =
                     IF RaisedByTheWrite THEN call'.frames - 1 ELSE call'.frames
              /\ StoppedAtTheFailingLine]_vars

\* insert_lines(["Top\n", " ##insert failing\n", "End\n"]) has failed with
\* the error of the directive in `bad`, three calls of insert_lines deep.
C25_Witness ==
    /\ call.op = "insert_lines"
    /\ raised = "DoxhooksDataError"
    /\ call.frames = 3
    /\ LineTraces(call.traces) = 3
    /\ Len(preprocessor.output) >= 3
    /\ preprocessor.output[Len(preprocessor.output)] = <<" ", " ", "first", "\n">>

----------------------------------------------------------------------------
(* The nodes of variables: SpecInsertions *)

\* The identifiers of the nodes of a text.
RECURSIVE NodesFrom(_, _)
NodesFrom(text, i) ==
    IF i > Len(text)
    THEN {}
    ELSE LET end == match_node(text, i)
         IN  IF end = 0
             THEN NodesFrom(text, i + 1)
             ELSE {SubSeq(text, i + 2, end - 2)} \cup NodesFrom(text, end + 1)

\* The variables that the nodes of the value of a variable name.
RefersTo(context, identifier) ==
    LET value == get(context, identifier)
    IN  IF value.raised # NoException THEN {} ELSE NodesFrom(value.text, 1)

\* The variables that are reached from some variables in up to n references.
RECURSIVE Reached(_, _, _)
Reached(context, identifiers, n) ==
    IF n = 0
    THEN identifiers
    ELSE Reached(context,
                 identifiers \cup UNION {RefersTo(context, identifier) :
                                            identifier \in identifiers},
                 n - 1)

Reachable(context, identifiers) ==
    Reached(context, identifiers, Cardinality(DOMAIN context.items))

\* A variable that the nodes of the line reach refers back to itself.
Cyclic(context, line) ==
    \E identifier \in Reachable(context, NodesFrom(line, 1)) :
        identifier \in Reachable(context, RefersTo(context, identifier))

\* Every variable that the nodes of the line reach has a value.
Resolves(context, line) ==
    \A identifier \in Reachable(context, NodesFrom(line, 1)) :
        get(context, identifier).raised = NoException

\* The last call was insert_lines with one line of text.
ExpandedOneLine ==
    /\ call'.op = "insert_lines"
    /\ Len(call'.lines) = 1
    /\ ~match_directive(call'.lines[1]).matched

----------------------------------------------------------------------------
(* Files that name each other: SpecInsertions *)

IncludeOrInsert == {<<"include">>, <<"insert">>}

\* The filenames that the directives of the lines with one of the keywords
\* name.
NamedByLines(lines, keywords) ==
    UNION {LET directive == match_directive(lines[n])
               tokens == shlex_split(directive.block)
           IN  IF directive.matched /\ directive.keyword \in keywords
               THEN {tokens[k] : k \in DOMAIN tokens}
               ELSE {} : n \in DOMAIN lines}

NamedByFile(filename, keywords) ==
    IF filename \in DOMAIN InputFiles
    THEN NamedByLines(InputFiles[filename], keywords)
    ELSE {}

\* The files that are reached from some files through up to n directives
\* with one of the keywords.
RECURSIVE FilesReached(_, _, _)
FilesReached(filenames, keywords, n) ==
    IF n = 0
    THEN filenames
    ELSE FilesReached(filenames \cup UNION {NamedByFile(filename, keywords) :
                                               filename \in filenames},
                      keywords, n - 1)

FilesReachable(filenames, keywords) ==
    FilesReached(filenames, keywords, Cardinality(DOMAIN InputFiles))

\* The file is on a cycle of insert directives.
OnInsertCycle(filename) ==
    filename \in FilesReachable(NamedByFile(filename, {<<"insert">>}), {<<"insert">>})

\* The files that the last call names: the root input file of start, the
\* file of insert_file, the files of the directives of insert_lines.
CalledFiles ==
    IF call'.op = "insert_lines"
    THEN NamedByLines(call'.lines, IncludeOrInsert)
    ELSE {call'.filename.text}

NoDuplicates(filenames) ==
    \A m, n \in DOMAIN filenames : filenames[m] = filenames[n] => m = n

\* C27: a call whose files reach no cycle of insert directives, and whose
\* lines have no cycle of nodes, ends without the error of unbounded
\* recursion, also when its files include themselves or each other; no filename is opened twice by include or start in the life
\* of the preprocessor, because the filename is in input_files before the
\* lines of the file are processed; insert_file of a file on a cycle of insert
\* directives ends in the error of unbounded recursion.
C27_IncludeCyclesEnd ==
    [][call'.op \in {"start", "insert_file", "insert_lines"}
           => /\ (/\ \A filename \in FilesReachable(CalledFiles, IncludeOrInsert) :
                         ~OnInsertCycle(filename)
                  /\ \A n \in DOMAIN call'.lines :
                         ~Cyclic(preprocessor.context, call'.lines[n]))
                     => preprocessor'.raised # RecursionError
              /\ NoDuplicates(preprocessor'.included)
              /\ \A n \in DOMAIN preprocessor'.included :
                     n > Len(preprocessor.included)
                         => preprocessor'.included[n] \notin preprocessor.input_files
              /\ (/\ call'.op = "insert_file"
                  /\ ~(call'.idempotent /\ call'.repeat)
                  /\ OnInsertCycle(call'.filename.text))
                     => preprocessor'.raised = RecursionError]_vars

\* insert_lines(["##include ring2 ring1\n"]) has returned: ring2 includes
\* ring1, which includes ring2, and each was opened once.
C27_Witness ==
    /\ call.op = "insert_lines"
    /\ call.lines = <<Directive(<<>>, <<"include">>, <<(<<"ring2">>), (<<"ring1">>)>>)>>
    /\ raised = "none"
    /\ preprocessor.included = << <<"ring2">>, <<"ring1">> >>
    /\ preprocessor.output = <<Line(<<"Two">>), Line(<<"One">>)>>

====
